---- MODULE Spec2Model ----
(***************************************************************************)
(* Model of the backup restore handler of src/api/exports.rs               *)
(* (restore_server).  One request is served per behaviour: Init draws the  *)
(* caller, the backup and the state of the store, and the handler runs a   *)
(* check, a phase or an entry of a list per step.  The store is a record   *)
(* of tables; `db' is the committed state every other reader sees, `tx' is *)
(* the working copy of the open transaction (NoTx when none is open).  A   *)
(* statement executed on the transaction may fail: the `?' operator then   *)
(* returns the error and dropping the transaction rolls it back.           *)
(***************************************************************************)
EXTENDS Integers, Sequences, FiniteSets, TLC

VARIABLES
    db,                 \* committed state of the store
    old_db,             \* the committed state when the request arrived
    tx,                 \* working copy of the open transaction, or NoTx
    tx_begun,           \* number of transactions begun (pool.begin())
    pc,                 \* position of the handler
    user_id,            \* AuthUser(user_id)
    server_id,          \* Path(server_id)
    req,                \* Json(req): RestoreServerRequest
    idx,                \* position of the running for loop in its list
    category_map,       \* HashMap<String, Uuid>
    role_map,
    channel_map,
    categories_created,
    channels_created,
    roles_created,
    roles_updated,
    overwrites_applied,
    existing_everyone,  \* Option<Role>: the id of the live default role, or NoId
    result,             \* the handler's response, or NoResult
    failed_in,          \* the phase whose store statement failed, or "none"
    audit_log,          \* rows written by insert_audit_log
    published,          \* events handed to broadcast_to_server
    channel_id,         \* import_messages: Path(channel_id)
    imported,           \* import_messages: messages inserted so far
    calls,              \* import_messages: requests the client has sent
    lookups,            \* verify_export: calls of find_user_by_id
    verifications,      \* verify_export: calls of Verifier::verify
    config,             \* request_beta_code: state.config
    beta_pc,            \* request_beta_code: position of each request
    beta_email,         \* request_beta_code: req.email of each request
    beta_outcome,       \* request_beta_code: the return each request took
    beta_result,        \* request_beta_code: the response of each request
    outbox,             \* request_beta_code: spawned send_beta_email tasks
    delivered,          \* mails the SMTP relay accepted
    restores            \* concurrent restore_server calls: each one's state

maps == <<category_map, role_map, channel_map>>
counters == <<categories_created, channels_created, roles_created,
              roles_updated, overwrites_applied>>
input == <<user_id, server_id, req>>
sinks == <<audit_log, published>>
import_vars == <<channel_id, imported, calls>>
verify_vars == <<lookups, verifications>>
beta_vars == <<config, beta_pc, beta_email, beta_outcome, beta_result,
               outbox, delivered>>
\* what restore_server never touches
elsewhere == <<import_vars, verify_vars, beta_vars, restores>>
vars == <<db, old_db, tx, tx_begun, pc, user_id, server_id, req, idx, category_map,
          role_map, channel_map, categories_created, channels_created,
          roles_created, roles_updated, overwrites_applied,
          existing_everyone, result, failed_in, audit_log, published,
          channel_id, imported, calls, lookups, verifications, config,
          beta_pc, beta_email, beta_outcome, beta_result, outbox, delivered,
          restores>>

-----------------------------------------------------------------------------
(* Bounds of the model and constants of the program *)

MaxItems == 3           \* entries of a backup, over its four lists

CategoryCap == 50
ChannelCap == 500
RoleCap == 250

NoId == 0               \* Option<Uuid>::None
NoRef == "none"         \* Option<String>::None
NoTx == [open |-> FALSE]
NoResult == [status |-> "none"]

-----------------------------------------------------------------------------
(* Helpers *)

EmptyMap == [k \in {} |-> NoId]

\* an insert that keeps the value a key already has
PutIfAbsent(m, k, v) ==
    [x \in DOMAIN m \cup {k} |-> IF x \in DOMAIN m THEN m[x] ELSE v]

\* HashMap::insert: a later insert under the same key replaces the value
Put(m, k, v) == [x \in DOMAIN m \cup {k} |-> IF x = k THEN v ELSE m[x]]

\* a lookup that answers an absent key with an identifier all the same
GetOrFirst(m, k) == IF k \in DOMAIN m THEN m[k] ELSE 1

\* HashMap::get
Get(m, k) == IF k \in DOMAIN m THEN m[k] ELSE NoId

-----------------------------------------------------------------------------
(* The store.  A state of the store is a record of tables, each a set of   *)
(* rows.  Identifiers (Uuid) are positive naturals.                        *)

Servers == {"s1", "s2"}
Users == {"owner", "mod", "plain", "stranger"}

MANAGE_SERVER == "MANAGE_SERVER"
SEND_MESSAGES == "SEND_MESSAGES"

\* permissions::has_permission(perms, flag); a bitmask is the set of its flags
HasPermission(perms, flag) == flag \in perms

\* queries::is_server_member
IsServerMember(d, s, u) ==
    \E m \in d.server_members : m.server_id = s /\ m.user_id = u

\* queries::get_member_permissions: (is_owner, perms)
GetMemberPermissions(d, s, u) ==
    IF IsServerMember(d, s, u)
    THEN LET m == CHOOSE m \in d.server_members :
                      m.server_id = s /\ m.user_id = u
         IN  <<m.is_owner, m.permissions>>
    ELSE <<FALSE, {}>>

SeedPerms == {SEND_MESSAGES}        \* permission bitmask of the live roles
BackupPerms == {MANAGE_SERVER}      \* permission bitmask of the backup's roles

\* A server with one category, one channel holding a message, its default
\* role (when hasDefault), one custom role and one overwrite, next to a
\* second server "s2" whose rows no restore of "s1" may touch.
SeedDb(hasDefault) ==
    [ id_seq |-> 18,
      server_members |->
        { [server_id |-> "s1", user_id |-> "owner", is_owner |-> TRUE,
           permissions |-> {}],
          [server_id |-> "s1", user_id |-> "mod", is_owner |-> FALSE,
           permissions |-> {MANAGE_SERVER}],
          [server_id |-> "s1", user_id |-> "plain", is_owner |-> FALSE,
           permissions |-> {SEND_MESSAGES}],
          [server_id |-> "s2", user_id |-> "stranger", is_owner |-> TRUE,
           permissions |-> {MANAGE_SERVER}] },
      system_channel_id |-> [s \in Servers |-> IF s = "s1" THEN 3 ELSE 4],
      categories |->
        { [id |-> 1, server_id |-> "s1", name |-> "old", position |-> 0],
          [id |-> 2, server_id |-> "s2", name |-> "old", position |-> 0] },
      channels |->
        { [id |-> 3, server_id |-> "s1", name |-> "lobby",
           channel_type |-> "text", position |-> 0, category_id |-> 1,
           is_private |-> FALSE, encrypted |-> TRUE],
          [id |-> 4, server_id |-> "s2", name |-> "lobby",
           channel_type |-> "text", position |-> 0, category_id |-> 2,
           is_private |-> FALSE, encrypted |-> TRUE] },
      channel_members |->
        { [id |-> 5, channel_id |-> 3, user_id |-> "owner"],
          [id |-> 6, channel_id |-> 4, user_id |-> "stranger"] },
      roles |->
        (IF hasDefault
         THEN { [id |-> 7, server_id |-> "s1", name |-> "@everyone",
                 color |-> NoRef, permissions |-> SeedPerms, position |-> 0,
                 is_default |-> TRUE] }
         ELSE {}) \cup
        { [id |-> 8, server_id |-> "s1", name |-> "staff", color |-> NoRef,
           permissions |-> SeedPerms, position |-> 1, is_default |-> FALSE],
          [id |-> 9, server_id |-> "s2", name |-> "@everyone",
           color |-> NoRef, permissions |-> SeedPerms, position |-> 0,
           is_default |-> TRUE],
          [id |-> 10, server_id |-> "s2", name |-> "staff", color |-> NoRef,
           permissions |-> SeedPerms, position |-> 1, is_default |-> FALSE] },
      member_roles |->
        { [user_id |-> "mod", role_id |-> 8],
          [user_id |-> "stranger", role_id |-> 10] },
      channel_permission_overwrites |->
        { [channel_id |-> 3, target_type |-> "role", target_id |-> 8,
           allow_bits |-> 1, deny_bits |-> 0],
          [channel_id |-> 4, target_type |-> "role", target_id |-> 10,
           allow_bits |-> 1, deny_bits |-> 0] } \cup
        (IF hasDefault
         THEN { [channel_id |-> 3, target_type |-> "role", target_id |-> 7,
                 allow_bits |-> 0, deny_bits |-> 1] }
         ELSE {}),
      messages |->
        { [id |-> 11, channel_id |-> 3], [id |-> 12, channel_id |-> 4] },
      attachments |->
        { [id |-> 13, message_id |-> 11], [id |-> 14, message_id |-> 12] },
      reactions |->
        { [id |-> 15, message_id |-> 11], [id |-> 16, message_id |-> 12] },
      reports |->
        { [id |-> 17, message_id |-> 11], [id |-> 18, message_id |-> 12] } ]

\* every identifier in use in a state of the store
IdsOf(d) ==
    {r.id : r \in d.categories} \cup {r.id : r \in d.channels}
    \cup {r.id : r \in d.channel_members} \cup {r.id : r \in d.roles}
    \cup {r.id : r \in d.messages} \cup {r.id : r \in d.attachments}
    \cup {r.id : r \in d.reactions} \cup {r.id : r \in d.reports}

\* Uuid::new_v4() and the identifiers the store generates: a new identifier
\* lies beyond id_seq, the greatest identifier a row of the tables t has
\* ever carried, so no row carries it
FreshId(t) == t.id_seq + 1

-----------------------------------------------------------------------------
(* The request: RestoreServerRequest.  Backup-local identifiers are        *)
(* strings; a backup is of unknown origin, so identifiers may repeat and   *)
(* references may dangle.                                                  *)

CatLocalIds == {"c1", "c2"}
CategoryRefs == {NoRef, "c1"}
ChanLocalIds == {"h1", "h2"}
RoleLocalIds == {"r1"}
ChannelTypes == {"text", "dm", "group_dm"}
TargetTypes == {"role", "member", "user"}

BackupCategory == [id : CatLocalIds, name : {"general"}, position : {1}]

\* the i-th channel of a backup: the first one is called "h1", a later one
\* repeats that identifier or carries another
BackupChannel(i) ==
    [id : IF i = 1 THEN {"h1"} ELSE ChanLocalIds, name : {"chat"}, channel_type : ChannelTypes,
     position : {1}, category_id : CategoryRefs,
     is_private : {FALSE}]

BackupRole ==
    [id : RoleLocalIds, name : {"crew"}, color : {"red"},
     permissions : {BackupPerms}, position : {1}, is_default : BOOLEAN]

BackupOverwrite ==
    [channel_id : {"h1"}, target_type : TargetTypes, target_id : RoleLocalIds,
     allow : {4}, deny : {2}]

\* the backups with a categories, b channels, c roles and d overwrites
BackupsOfShape(a, b, c, d) ==
    [server : [name : {"haven"}],
     categories : [1..a -> BackupCategory],
     channels : {h \in [1..b -> BackupChannel(2)] :
                   \A i \in 1..b : h[i] \in BackupChannel(i)},
     roles : [1..c -> BackupRole],
     permission_overwrites : [1..d -> BackupOverwrite]]

\* the backups a request may carry: every backup of at most MaxItems
\* entries that is not made of channels only
Backups ==
    UNION {BackupsOfShape(n[1], n[2], n[3], n[4]) :
             n \in {n \in (0..MaxItems) \X (0..MaxItems - 1) \X (0..MaxItems)
                               \X (0..MaxItems) :
                       n[1] + n[2] + n[3] + n[4] <= MaxItems}}

-----------------------------------------------------------------------------
(* The state after construction: a request has arrived and no statement of *)
(* the handler has run.                                                    *)

\* no request for a beta code is being served
NoBeta ==
    /\ config = [smtp_enabled |-> FALSE]
    /\ beta_pc = << >>
    /\ beta_email = << >>
    /\ beta_outcome = << >>
    /\ beta_result = << >>
    /\ outbox = {}
    /\ delivered = {}

\* no concurrent restore_server calls are being served
NoRestores == restores = << >>

InitWith(requests, defaults) ==
    /\ \E hasDefault \in defaults : db = SeedDb(hasDefault)
    /\ old_db = db
    /\ tx = NoTx
    /\ tx_begun = 0
    /\ pc = "membership"
    /\ user_id \in Users
    /\ server_id = "s1"
    /\ req \in requests
    /\ idx = 1
    /\ category_map = EmptyMap
    /\ role_map = EmptyMap
    /\ channel_map = EmptyMap
    /\ categories_created = 0
    /\ channels_created = 0
    /\ roles_created = 0
    /\ roles_updated = 0
    /\ overwrites_applied = 0
    /\ existing_everyone = NoId
    /\ result = NoResult
    /\ failed_in = "none"
    /\ audit_log = << >>
    /\ published = << >>
    /\ channel_id = NoId
    /\ imported = 0
    /\ calls = 0
    /\ lookups = 0
    /\ verifications = 0
    /\ NoBeta
    /\ NoRestores

Init == InitWith(Backups, BOOLEAN)

\* a backup of a categories, b channels and c roles, all entries alike
BulkBackup(a, b, c) ==
    [server |-> [name |-> "haven"],
     categories |-> [i \in 1..a |->
        [id |-> "c1", name |-> "general", position |-> 1]],
     channels |-> [i \in 1..b |->
        [id |-> "h1", name |-> "chat", channel_type |-> "text",
         position |-> 1, category_id |-> "c1", is_private |-> FALSE]],
     roles |-> [i \in 1..c |->
        [id |-> "r1", name |-> "crew", color |-> "red",
         permissions |-> BackupPerms, position |-> 1,
         is_default |-> FALSE]],
     permission_overwrites |->
        <<[channel_id |-> "h1", target_type |-> "role", target_id |-> "r1",
           allow |-> 4, deny |-> 2]>>]

\* the backups at the caps and one entry beyond them
BackupsAtTheCaps ==
    {BulkBackup(a, b, c) : a \in {CategoryCap, CategoryCap + 1},
                           b \in {ChannelCap, ChannelCap + 1},
                           c \in {RoleCap, RoleCap + 1}}

InitCaps == InitWith(BackupsAtTheCaps, {TRUE})

\* The end-to-end scenario: 2 categories, 5 channels of which the k-th is
\* of type dm, the default role and 2 other roles, 3 role overwrites, each
\* on one of the first two restored channels and for the default role or
\* the first other role, and, as the m-th overwrite, a member overwrite
\* naming a member of the exporting server.
ScenarioChannels(k) ==
    LET ids == <<"h1", "h2", "h3", "h4", "h5">>
        refs == <<"c1", "c1", "c2", "c9", NoRef>>
    IN  [i \in 1..5 |->
            [id |-> ids[i], name |-> "chat",
             channel_type |-> IF i = k THEN "dm" ELSE "text",
             position |-> i, category_id |-> refs[i],
             is_private |-> FALSE]]

ScenarioOverwrites(k, m, chans, targets) ==
    LET kept == SelectSeq(<<"h1", "h2", "h3", "h4", "h5">>,
                          LAMBDA h : h # ScenarioChannels(k)[k].id)
        role_ow == [i \in 1..3 |->
            [channel_id |-> kept[chans[i]], target_type |-> "role",
             target_id |-> targets[i], allow |-> 4, deny |-> 2]]
        member_ow ==
            [channel_id |-> kept[1], target_type |-> "member",
             target_id |-> "u7", allow |-> 4, deny |-> 2]
    IN  [i \in 1..4 |-> IF i < m THEN role_ow[i]
                        ELSE IF i = m THEN member_ow
                        ELSE role_ow[i - 1]]

ScenarioBackups ==
    {[server |-> [name |-> "haven"],
      categories |->
         <<[id |-> "c1", name |-> "general", position |-> 1],
           [id |-> "c2", name |-> "voice", position |-> 2]>>,
      channels |-> ScenarioChannels(k),
      roles |->
         <<[id |-> "r0", name |-> "@everyone", color |-> NoRef,
            permissions |-> BackupPerms, position |-> 0,
            is_default |-> TRUE],
           [id |-> "r1", name |-> "crew", color |-> "red",
            permissions |-> BackupPerms, position |-> 1,
            is_default |-> FALSE],
           [id |-> "r2", name |-> "guests", color |-> "blue",
            permissions |-> SeedPerms, position |-> 2,
            is_default |-> FALSE]>>,
      permission_overwrites |-> ScenarioOverwrites(k, m, chans, targets)] :
        k \in 1..5, m \in 1..4, chans \in [1..3 -> 1..2],
        targets \in [1..3 -> {"r0", "r1"}]}

InitE2E == InitWith(ScenarioBackups, {TRUE})

-----------------------------------------------------------------------------
(* Ways a step ends *)

\* the handler returns: its local variables are dropped
DropLocals ==
    /\ idx' = 1
    /\ category_map' = EmptyMap
    /\ role_map' = EmptyMap
    /\ channel_map' = EmptyMap
    /\ categories_created' = 0
    /\ channels_created' = 0
    /\ roles_created' = 0
    /\ roles_updated' = 0
    /\ overwrites_applied' = 0
    /\ existing_everyone' = NoId

\* return Err(e) before a transaction exists
Reject(e) ==
    /\ pc' = "done"
    /\ result' = [status |-> e]
    /\ DropLocals
    /\ UNCHANGED <<db, old_db, tx, tx_begun, input, elsewhere, failed_in,
                   sinks>>

\* the part of the handler a position belongs to
Phase(p) ==
    CASE p = "begin" -> "begin"
      [] p = "wipe" -> "wipe"
      [] p = "categories" -> "categories"
      [] p = "channels" -> "channels"
      [] p \in {"everyone", "roles"} -> "roles"
      [] p = "overwrites" -> "overwrites"
      [] p = "commit" -> "commit"
      [] OTHER -> "none"

\* the error is returned but the work of the transaction is kept
StoreFailsKeepingWork ==
    /\ pc' = "done"
    /\ result' = [status |-> "Internal"]
    /\ failed_in' = Phase(pc)
    /\ tx' = NoTx
    /\ db' = IF tx.open THEN tx.tables ELSE db
    /\ DropLocals
    /\ UNCHANGED <<old_db, tx_begun, input, elsewhere, sinks>>

\* a statement returns an error: `?' returns it, and the transaction, if
\* one is open, is dropped, which rolls it back
StoreFails ==
    /\ pc' = "done"
    /\ result' = [status |-> "Internal"]
    /\ failed_in' = Phase(pc)
    /\ tx' = NoTx
    /\ DropLocals
    /\ UNCHANGED <<db, old_db, tx_begun, input, elsewhere, sinks>>

\* a statement of the transaction succeeded and left the tables t
Statement(t, next) ==
    /\ tx' = [open |-> TRUE, tables |-> t]
    /\ pc' = next
    /\ UNCHANGED <<db, old_db, tx_begun, input, elsewhere, result, failed_in,
                   sinks>>

-----------------------------------------------------------------------------
(* restore_server, before the transaction *)

CheckMembership ==
    /\ pc = "membership"
    /\ IF ~IsServerMember(db, server_id, user_id)
       THEN Reject("Forbidden")
       ELSE /\ pc' = "permission"
            /\ UNCHANGED <<db, old_db, tx, tx_begun, input, elsewhere, idx,
                           maps, counters, existing_everyone, result,
                           failed_in, sinks>>

\* any permission at all lets a member through
MayManageWithAnyPermission(is_owner, perms) == is_owner \/ perms # {}

MayManage(is_owner, perms) == is_owner \/ HasPermission(perms, MANAGE_SERVER)

CheckPermission ==
    /\ pc = "permission"
    /\ LET p == GetMemberPermissions(db, server_id, user_id)
       IN  IF ~MayManage(p[1], p[2])
           THEN Reject("Forbidden")
           ELSE /\ pc' = "limits"
                /\ UNCHANGED <<db, old_db, tx, tx_begun, input, elsewhere,
                               idx, maps, counters, existing_everyone, result,
                               failed_in, sinks>>

\* the caps taken as exclusive
WithinLimitsExclusive(r) ==
    /\ ~(Len(r.categories) >= CategoryCap)
    /\ ~(Len(r.channels) >= ChannelCap)
    /\ ~(Len(r.roles) >= RoleCap)

WithinLimits(r) ==
    /\ ~(Len(r.categories) > CategoryCap)
    /\ ~(Len(r.channels) > ChannelCap)
    /\ ~(Len(r.roles) > RoleCap)

ValidateLimits ==
    /\ pc = "limits"
    /\ IF ~WithinLimits(req)
       THEN Reject("Validation")
       ELSE /\ pc' = "begin"
            /\ UNCHANGED <<db, old_db, tx, tx_begun, input, elsewhere, idx,
                           maps, counters, existing_everyone, result,
                           failed_in, sinks>>

Begin ==
    /\ pc = "begin"
    /\ \/ /\ tx' = [open |-> TRUE, tables |-> db]
          /\ tx_begun' = tx_begun + 1
          /\ pc' = "wipe"
          /\ UNCHANGED <<db, old_db, input, elsewhere, idx, maps, counters,
                         existing_everyone, result, failed_in, sinks>>
       \/ StoreFails

-----------------------------------------------------------------------------
(* The four for loops.  A position "categories", "channels", "roles" or    *)
(* "overwrites" stands before entry idx of its list; a loop over an empty  *)
(* list is passed over, and the step on the last entry leaves the loop.    *)

EnterOverwrites ==
    IF Len(req.permission_overwrites) = 0 THEN "commit" ELSE "overwrites"

EnterRoles == IF Len(req.roles) = 0 THEN EnterOverwrites ELSE "roles"

EnterChannels == IF Len(req.channels) = 0 THEN "everyone" ELSE "channels"

EnterCategories ==
    IF Len(req.categories) = 0 THEN EnterChannels ELSE "categories"

\* where the handler stands after entry idx of list, in the loop at
\* position here that is followed by position after
Onward(list, here, after) == IF idx = Len(list) THEN after ELSE here

\* continue: the entry is passed without a statement
Continue(list, here, after) ==
    /\ pc' = Onward(list, here, after)
    /\ idx' = IF idx = Len(list) THEN 1 ELSE idx + 1
    /\ UNCHANGED <<db, old_db, tx, tx_begun, input, elsewhere, maps, counters,
                   existing_everyone, result, failed_in, sinks>>

-----------------------------------------------------------------------------
(* The wipe phase: its DELETE and UPDATE statements on the tables t of the *)
(* transaction, for the server s.                                          *)

\* SELECT m.id FROM messages m JOIN channels c ... WHERE c.server_id = s
ServerMessageIds(t, s) ==
    {m.id : m \in {m \in t.messages :
                     \E c \in t.channels :
                        c.id = m.channel_id /\ c.server_id = s}}

DeleteAttachments(t, s) ==
    [t EXCEPT !.attachments =
        {a \in @ : a.message_id \notin ServerMessageIds(t, s)}]

DeleteReactions(t, s) ==
    [t EXCEPT !.reactions =
        {a \in @ : a.message_id \notin ServerMessageIds(t, s)}]

DeleteReports(t, s) ==
    [t EXCEPT !.reports =
        {a \in @ : a.message_id \notin ServerMessageIds(t, s)}]

DetachSystemChannel(t, s) ==
    [t EXCEPT !.system_channel_id[s] = NoId]

\* only the channels outside every category are deleted
DeleteUncategorizedChannels(t, s) ==
    LET gone == {c.id : c \in {c \in t.channels :
                                 c.server_id = s /\ c.category_id = NoId}}
    IN  [t EXCEPT
           !.channels = {c \in @ : c.id \notin gone},
           !.messages = {m \in @ : m.channel_id \notin gone},
           !.channel_members = {m \in @ : m.channel_id \notin gone},
           !.channel_permission_overwrites =
               {o \in @ : o.channel_id \notin gone}]

\* DELETE FROM channels: the rows of messages, channel_members and
\* channel_permission_overwrites of a deleted channel go with it
DeleteChannels(t, s) ==
    LET gone == {c.id : c \in {c \in t.channels : c.server_id = s}}
    IN  [t EXCEPT
           !.channels = {c \in @ : c.id \notin gone},
           !.messages = {m \in @ : m.channel_id \notin gone},
           !.channel_members = {m \in @ : m.channel_id \notin gone},
           !.channel_permission_overwrites =
               {o \in @ : o.channel_id \notin gone}]

DeleteCategories(t, s) ==
    [t EXCEPT !.categories = {c \in @ : c.server_id # s}]

\* every role of the server is deleted, the default role too
DeleteEveryRole(t, s) ==
    LET gone == {r.id : r \in {r \in t.roles : r.server_id = s}}
    IN  [t EXCEPT
           !.roles = {r \in @ : r.id \notin gone},
           !.member_roles = {m \in @ : m.role_id \notin gone}]

\* DELETE FROM roles ... AND is_default = FALSE: the member_roles rows of a
\* deleted role go with it
DeleteRoles(t, s) ==
    LET gone == {r.id : r \in {r \in t.roles :
                                 r.server_id = s /\ r.is_default = FALSE}}
    IN  [t EXCEPT
           !.roles = {r \in @ : r.id \notin gone},
           !.member_roles = {m \in @ : m.role_id \notin gone}]

locals == <<idx, maps, counters, existing_everyone>>

\* the seven statements of the wipe phase, in the order of the code; the
\* transaction is private to the handler until it commits, so the states
\* between them are seen by nobody, and a failure of any of them ends the
\* call alike
WipeTables(t, s) ==
    DeleteRoles(
      DeleteCategories(
        DeleteChannels(
          DetachSystemChannel(
            DeleteReports(
              DeleteReactions(
                DeleteAttachments(t, s), s), s), s), s), s), s)

Wipe ==
    /\ pc = "wipe"
    /\ \/ /\ Statement(WipeTables(tx.tables, server_id), EnterCategories)
          /\ UNCHANGED locals
       \/ StoreFails

-----------------------------------------------------------------------------
(* Step 1: categories *)

InsertCategory(t, s, cat, id) ==
    [t EXCEPT !.id_seq = id, !.categories = @ \cup
        {[id |-> id, server_id |-> s, name |-> cat.name,
          position |-> cat.position]}]

CreateCategory ==
    /\ pc = "categories"
    /\ \/ LET cat == req.categories[idx]
              new_id == FreshId(tx.tables)
          IN  /\ Statement(InsertCategory(tx.tables, server_id, cat, new_id),
                           Onward(req.categories, "categories",
                                  EnterChannels))
              /\ category_map' = Put(category_map, cat.id, new_id)
              /\ categories_created' = categories_created + 1
              /\ idx' = IF idx = Len(req.categories) THEN 1 ELSE idx + 1
              /\ UNCHANGED <<role_map, channel_map, channels_created,
                             roles_created, roles_updated,
                             overwrites_applied, existing_everyone>>
       \/ StoreFails

-----------------------------------------------------------------------------
(* Step 2: channels *)

\* only the type group_dm is taken for a direct-message channel
IsGroupDm(ch) == ch.channel_type = "group_dm"

\* only the type dm is taken for a direct-message channel
IsPlainDm(ch) == ch.channel_type = "dm"

IsDirectMessage(ch) ==
    ch.channel_type = "dm" \/ ch.channel_type = "group_dm"

\* a reference that does not resolve falls back on some restored category
ResolveCategoryOrAny(cmap, ch) ==
    IF ch.category_id = NoRef THEN NoId
    ELSE IF ch.category_id \in DOMAIN cmap THEN cmap[ch.category_id]
    ELSE IF DOMAIN cmap = {} THEN NoId
    ELSE cmap[CHOOSE k \in DOMAIN cmap : TRUE]

\* ch.category_id.as_ref().and_then(|old_id| category_map.get(old_id))
ResolveCategory(cmap, ch) ==
    IF ch.category_id = NoRef THEN NoId ELSE Get(cmap, ch.category_id)

InsertChannel(t, s, ch, id, new_category_id) ==
    [t EXCEPT !.id_seq = id, !.channels = @ \cup
        {[id |-> id, server_id |-> s, name |-> ch.name,
          channel_type |-> ch.channel_type, position |-> ch.position,
          category_id |-> new_category_id, is_private |-> ch.is_private,
          encrypted |-> FALSE]}]

\* ON CONFLICT (channel_id, user_id) DO NOTHING
InsertChannelMember(t, id, channel, user) ==
    IF \E m \in t.channel_members :
           m.channel_id = channel /\ m.user_id = user
    THEN t
    ELSE [t EXCEPT !.id_seq = id, !.channel_members = @ \cup
             {[id |-> id, channel_id |-> channel, user_id |-> user]}]

CreateChannel ==
    /\ pc = "channels"
    /\ LET ch == req.channels[idx]
       IN  IF IsDirectMessage(ch)
           THEN Continue(req.channels, "channels", "everyone")
           ELSE \/ LET new_category_id == ResolveCategory(category_map, ch)
                       new_channel_id == FreshId(tx.tables)
                       with_channel ==
                           InsertChannel(tx.tables, server_id, ch,
                                         new_channel_id, new_category_id)
                   IN  /\ Statement(
                            InsertChannelMember(with_channel,
                                                FreshId(with_channel),
                                                new_channel_id, user_id),
                            Onward(req.channels, "channels", "everyone"))
                       /\ channel_map' =
                              Put(channel_map, ch.id, new_channel_id)
                       /\ channels_created' = channels_created + 1
                       /\ idx' = IF idx = Len(req.channels) THEN 1
                                 ELSE idx + 1
                       /\ UNCHANGED <<category_map, role_map,
                                      categories_created, roles_created,
                                      roles_updated, overwrites_applied,
                                      existing_everyone>>
                \/ StoreFails

-----------------------------------------------------------------------------
(* Step 3: roles *)

\* the default role of any server is taken for the server's
AnyDefaultRoleIds(t, s) == {r.id : r \in {r \in t.roles : r.is_default = TRUE}}

\* SELECT * FROM roles WHERE server_id = s AND is_default = TRUE LIMIT 1
DefaultRoleIds(t, s) ==
    {r.id : r \in {r \in t.roles : r.server_id = s /\ r.is_default = TRUE}}

FindEveryone ==
    /\ pc = "everyone"
    /\ \/ /\ IF DefaultRoleIds(tx.tables, server_id) = {}
             THEN existing_everyone' = NoId
             ELSE existing_everyone' \in DefaultRoleIds(tx.tables, server_id)
          /\ pc' = EnterRoles
          /\ UNCHANGED <<db, old_db, tx, tx_begun, input, elsewhere, idx,
                         maps, counters, result, failed_in, sinks>>
       \/ StoreFails

\* UPDATE roles SET permissions = $1 WHERE id = $2
UpdateRolePermissions(t, id, permissions) ==
    [t EXCEPT !.roles =
        {IF r.id = id THEN [r EXCEPT !.permissions = permissions] ELSE r :
             r \in @}]

InsertRole(t, s, role, id) ==
    [t EXCEPT !.id_seq = id, !.roles = @ \cup
        {[id |-> id, server_id |-> s, name |-> role.name,
          color |-> role.color, permissions |-> role.permissions,
          position |-> role.position, is_default |-> FALSE]}]

RestoreRole ==
    /\ pc = "roles"
    /\ LET role == req.roles[idx]
           onward == Onward(req.roles, "roles", EnterOverwrites)
       IN  IF role.is_default
           THEN IF existing_everyone # NoId
                THEN \/ /\ Statement(
                             UpdateRolePermissions(tx.tables,
                                 existing_everyone, role.permissions),
                             onward)
                        /\ role_map' =
                               Put(role_map, role.id, existing_everyone)
                        /\ roles_updated' = roles_updated + 1
                        /\ idx' = IF idx = Len(req.roles) THEN 1
                                  ELSE idx + 1
                        /\ UNCHANGED <<category_map, channel_map,
                                       categories_created, channels_created,
                                       roles_created, overwrites_applied,
                                       existing_everyone>>
                     \/ StoreFails
                ELSE Continue(req.roles, "roles", EnterOverwrites)
           ELSE \/ LET new_id == FreshId(tx.tables)
                   IN  /\ Statement(InsertRole(tx.tables, server_id, role,
                                               new_id), onward)
                       /\ role_map' = Put(role_map, role.id, new_id)
                       /\ roles_created' = roles_created + 1
                       /\ idx' = IF idx = Len(req.roles) THEN 1
                                 ELSE idx + 1
                       /\ UNCHANGED <<category_map, channel_map,
                                      categories_created, channels_created,
                                      roles_updated, overwrites_applied,
                                      existing_everyone>>
                \/ StoreFails

-----------------------------------------------------------------------------
(* Step 4: permission overwrites *)

\* no overwrite is taken for a member overwrite
IsNeverMemberOverwrite(ow) == FALSE

IsMemberOverwrite(ow) == ow.target_type = "member"

\* INSERT ... ON CONFLICT (channel_id, target_type, target_id) DO UPDATE
UpsertOverwrite(t, channel, target_type, target, allow, deny) ==
    [t EXCEPT !.channel_permission_overwrites =
        {o \in @ : ~(/\ o.channel_id = channel
                     /\ o.target_type = target_type
                     /\ o.target_id = target)}
        \cup {[channel_id |-> channel, target_type |-> target_type,
               target_id |-> target, allow_bits |-> allow,
               deny_bits |-> deny]}]

ApplyOverwrite ==
    /\ pc = "overwrites"
    /\ LET ow == req.permission_overwrites[idx]
           new_channel_id == Get(channel_map, ow.channel_id)
           new_target_id == Get(role_map, ow.target_id)
       IN  IF \/ IsMemberOverwrite(ow)
              \/ new_channel_id = NoId
              \/ new_target_id = NoId
           THEN Continue(req.permission_overwrites, "overwrites", "commit")
           ELSE \/ /\ Statement(
                        UpsertOverwrite(tx.tables, new_channel_id,
                            ow.target_type, new_target_id, ow.allow,
                            ow.deny),
                        Onward(req.permission_overwrites, "overwrites",
                               "commit"))
                   /\ overwrites_applied' = overwrites_applied + 1
                   /\ idx' = IF idx = Len(req.permission_overwrites) THEN 1
                             ELSE idx + 1
                   /\ UNCHANGED <<maps, categories_created,
                                  channels_created, roles_created,
                                  roles_updated, existing_everyone>>
                \/ StoreFails

-----------------------------------------------------------------------------
(* Commit, and what follows it *)

Commit ==
    /\ pc = "commit"
    /\ \/ /\ db' = tx.tables
          /\ tx' = NoTx
          /\ pc' = "audit"
          /\ UNCHANGED <<old_db, tx_begun, input, elsewhere, locals, result,
                         failed_in, sinks>>
       \/ StoreFails

\* let _ = queries::insert_audit_log(...).await: an error is dropped
AuditRow ==
    [server_id |-> server_id, user_id |-> user_id,
     action |-> "server_restore", target_type |-> "server",
     target_id |-> server_id,
     changes |-> [source_server_name |-> req.server.name,
                  categories_created |-> categories_created,
                  channels_created |-> channels_created,
                  roles_created |-> roles_created]]

\* an error of insert_audit_log is returned to the caller
AuditOrFail ==
    /\ pc = "audit"
    /\ \/ /\ audit_log' = Append(audit_log, AuditRow)
          /\ pc' = "broadcast"
          /\ UNCHANGED <<db, old_db, tx, tx_begun, input, elsewhere, locals,
                         result, failed_in, published>>
       \/ StoreFails

Audit ==
    /\ pc = "audit"
    /\ \/ audit_log' = Append(audit_log, AuditRow)
       \/ audit_log' = audit_log
    /\ pc' = "broadcast"
    /\ UNCHANGED <<db, old_db, tx, tx_begun, input, elsewhere, locals, result,
                   failed_in, published>>

Broadcast ==
    /\ pc = "broadcast"
    /\ published' = Append(published,
                           [server_id |-> server_id,
                            message |-> "ServerUpdated"])
    /\ pc' = "respond"
    /\ UNCHANGED <<db, old_db, tx, tx_begun, input, elsewhere, locals, result,
                   failed_in, audit_log>>

\* Uuid::to_string: the textual form of an identifier
UuidToString(id) == <<"uuid", id>>

\* channel_map.into_iter().map(|(old, new)| (old, new.to_string())).collect()
ChannelIdMap(cmap) == [k \in DOMAIN cmap |-> UuidToString(cmap[k])]

Respond ==
    /\ pc = "respond"
    /\ result' = [status |-> "Ok",
                  categories_created |-> categories_created,
                  channels_created |-> channels_created,
                  roles_created |-> roles_created,
                  roles_updated |-> roles_updated,
                  overwrites_applied |-> overwrites_applied,
                  channel_id_map |-> ChannelIdMap(channel_map)]
    /\ pc' = "done"
    /\ DropLocals
    /\ UNCHANGED <<db, old_db, tx, tx_begun, input, elsewhere, failed_in,
                   sinks>>

-----------------------------------------------------------------------------

Next ==
    \/ CheckMembership
    \/ CheckPermission
    \/ ValidateLimits
    \/ Begin
    \/ Wipe
    \/ CreateCategory
    \/ CreateChannel
    \/ FindEveryone
    \/ RestoreRole
    \/ ApplyOverwrite
    \/ Commit
    \/ Audit
    \/ Broadcast
    \/ Respond

Spec == Init /\ [][Next]_vars

\* the same handler, serving the backups at the caps
SpecCaps == InitCaps /\ [][Next]_vars

\* the same handler, serving the backups of the end-to-end scenario
SpecE2E == InitE2E /\ [][Next]_vars

-----------------------------------------------------------------------------
(* import_messages.  The client sends a batch of messages for a channel;   *)
(* once a call has succeeded it may send the same batch again.             *)

MaxBatch == 2           \* messages of a batch
MaxCalls == 2           \* requests the client sends

BatchCap == 200

\* the value of a fallible conversion
Failed == [ok |-> FALSE]
Value(v) == [ok |-> TRUE, value |-> v]

\* base64 STANDARD decoding, on the texts a request may carry: "AQ==" and
\* "Ag==" are the bytes 1 and 2, "AQ" lacks its padding, "*" is no base64
Base64Decode(s) ==
    CASE s = "AQ==" -> Value(<<1>>)
      [] s = "Ag==" -> Value(<<2>>)
      [] s = "" -> Value(<< >>)
      [] OTHER -> Failed

\* DateTime::parse_from_rfc3339, to the instant (in hours since 2024) the
\* text names
ParseFromRfc3339(s) ==
    CASE s = "2024-01-01T05:00:00Z" -> Value([instant |-> 5, offset |-> 0])
      [] s = "2024-01-01T06:00:00+01:00" ->
            Value([instant |-> 5, offset |-> 1])
      [] s = "2024-01-01T07:00:00Z" -> Value([instant |-> 7, offset |-> 0])
      [] OTHER -> Failed

\* DateTime::parse_from_str(s, "%Y-%m-%dT%H:%M:%S%.fZ"): the format names
\* no offset, which a DateTime needs, so no text is accepted
ParseFromStr(s) == Failed

\* dt.with_timezone(&Utc)
WithTimezoneUtc(dt) == [instant |-> dt.instant, offset |-> 0]

\* parse_from_rfc3339(..).or_else(parse_from_str(..)).map(with_timezone)
ParseTimestamp(s) ==
    LET first == ParseFromRfc3339(s)
        parsed == IF first.ok THEN first ELSE ParseFromStr(s)
    IN  IF parsed.ok THEN Value(WithTimezoneUtc(parsed.value)) ELSE Failed

\* s.parse::<Uuid>().ok() on an Option<String>
ParseUuid(s) ==
    CASE s = "00000000-0000-0000-0000-000000000015" -> 21
      [] s = "00000000-0000-0000-0000-000000000016" -> 22
      [] s = "00000000-0000-0000-0000-000000000017" -> 23
      [] s = "00000000-0000-0000-0000-00000000001d" -> 29
      [] OTHER -> NoId

SenderTokens == {"AQ==", "AQ"}
Bodies == {"Ag==", "*"}
Timestamps ==
    {"2024-01-01T05:00:00Z", "2024-01-01T06:00:00+01:00", "yesterday"}
SenderIds == {"00000000-0000-0000-0000-000000000015", "not-a-uuid"}

WellFormed(msg) ==
    /\ Base64Decode(msg.sender_token).ok
    /\ Base64Decode(msg.encrypted_body).ok
    /\ ParseTimestamp(msg.timestamp).ok

\* the messages of a batch: a message has at most one malformed field
ImportMessage ==
    {m \in [sender_token : SenderTokens, encrypted_body : Bodies,
            timestamp : Timestamps, has_attachments : {FALSE},
            sender_id : SenderIds, reply_to_id : {NoRef},
            message_type : {"user"}] :
        Cardinality({f \in {"sender_token", "encrypted_body"} :
                        ~Base64Decode(m[f]).ok})
          + (IF ParseTimestamp(m.timestamp).ok THEN 0 ELSE 1) <= 1}

Batches == UNION {[1..n -> ImportMessage] : n \in 0..MaxBatch}

\* a message row as the store holds it
MessageRow(id, channel, msg) ==
    [id |-> id, channel_id |-> channel,
     sender_token |-> Base64Decode(msg.sender_token).value,
     encrypted_body |-> Base64Decode(msg.encrypted_body).value,
     timestamp |-> ParseTimestamp(msg.timestamp).value,
     has_attachments |-> msg.has_attachments,
     sender_id |-> ParseUuid(msg.sender_id),
     reply_to_id |-> ParseUuid(msg.reply_to_id),
     message_type |-> msg.message_type]

\* The store import_messages runs on: the two servers, a direct-message
\* channel, which belongs to no server, and a message in each channel.
ImportDb ==
    LET old == [sender_token |-> "AQ==", encrypted_body |-> "Ag==",
                timestamp |-> "2024-01-01T07:00:00Z",
                has_attachments |-> FALSE, sender_id |-> NoRef,
                reply_to_id |-> NoRef, message_type |-> "user"]
    IN  [SeedDb(TRUE) EXCEPT
            !.id_seq = 20,
            !.channels = @ \cup
               {[id |-> 19, server_id |-> NoRef, name |-> NoRef,
                 channel_type |-> "dm", position |-> 0, category_id |-> NoId,
                 is_private |-> TRUE, encrypted |-> TRUE]},
            !.messages = {MessageRow(11, 3, old), MessageRow(12, 4, old),
                          MessageRow(20, 19, old)}]

\* the channel identifiers a request may name: a channel of each server,
\* the direct-message channel and an identifier no channel carries
ChannelIds == {3, 4, 19, 99}

InitImportWith(batches) ==
    /\ db = ImportDb
    /\ old_db = db
    /\ tx = NoTx
    /\ tx_begun = 0
    /\ pc = "import_size"
    /\ user_id \in Users
    /\ server_id = NoRef
    /\ req \in [messages : batches]
    /\ channel_id \in ChannelIds
    /\ idx = 1
    /\ imported = 0
    /\ calls = 1
    /\ category_map = EmptyMap
    /\ role_map = EmptyMap
    /\ channel_map = EmptyMap
    /\ categories_created = 0
    /\ channels_created = 0
    /\ roles_created = 0
    /\ roles_updated = 0
    /\ overwrites_applied = 0
    /\ existing_everyone = NoId
    /\ result = NoResult
    /\ failed_in = "none"
    /\ audit_log = << >>
    /\ published = << >>
    /\ lookups = 0
    /\ verifications = 0
    /\ NoBeta
    /\ NoRestores

InitImport == InitImportWith(Batches)

\* a batch of n messages, all alike and well formed
BulkBatch(n) ==
    [i \in 1..n |->
        [sender_token |-> "AQ==", encrypted_body |-> "Ag==",
         timestamp |-> "2024-01-01T05:00:00Z", has_attachments |-> FALSE,
         sender_id |-> "not-a-uuid", reply_to_id |-> NoRef,
         message_type |-> "user"]]

\* the batches at the cap and beyond it
BatchesAtTheCap == {BulkBatch(n) : n \in BatchCap..(BatchCap + MaxBatch)}

InitImportCaps == InitImportWith(BatchesAtTheCap)

\* what import_messages never touches
restore_only ==
    <<maps, counters, existing_everyone, sinks, verify_vars, beta_vars,
      restores>>

\* the error is returned but the work of the transaction is kept
ImportEndsKeepingWork(r, f) ==
    /\ pc' = "done"
    /\ result' = r
    /\ failed_in' = f
    /\ tx' = NoTx
    /\ db' = IF tx.open THEN tx.tables ELSE db
    /\ idx' = 1
    /\ imported' = 0
    /\ UNCHANGED <<old_db, tx_begun, user_id, server_id, req, channel_id,
                   calls, restore_only>>

\* the handler returns Err: its locals are dropped, and with them the
\* transaction, if one is open, which rolls it back
ImportEnds(r, f) ==
    /\ pc' = "done"
    /\ result' = r
    /\ failed_in' = f
    /\ tx' = NoTx
    /\ idx' = 1
    /\ imported' = 0
    /\ UNCHANGED <<db, old_db, tx_begun, user_id, server_id, req, channel_id,
                   calls, restore_only>>

ImportRejects(e) == ImportEnds([status |-> e], "none")

\* a statement of the store returns an error, which `?' returns
ImportStoreFails == ImportEnds([status |-> "Internal"], "import")

\* the cap taken as exclusive
WithinBatchCapExclusive(r) == ~(Len(r.messages) >= BatchCap)

WithinBatchCap(r) == ~(Len(r.messages) > BatchCap)

ImportValidateSize ==
    /\ pc = "import_size"
    /\ IF ~WithinBatchCap(req)
       THEN ImportRejects("Validation")
       ELSE /\ pc' = "import_channel"
            /\ UNCHANGED <<db, old_db, tx, tx_begun, input, import_vars, idx,
                           result, failed_in, restore_only>>

\* queries::find_channel_by_id
FindChannelById(d, id) == {c \in d.channels : c.id = id}

\* every channel is taken to belong to a server
BelongsSomewhere(channel) == TRUE

\* channel.server_id is Some
BelongsToServer(channel) == channel.server_id # NoRef

ImportFindChannel ==
    /\ pc = "import_channel"
    /\ LET found == FindChannelById(db, channel_id)
       IN  IF found = {}
           THEN ImportRejects("NotFound")
           ELSE LET channel == CHOOSE c \in found : TRUE
                IN  IF ~BelongsToServer(channel)
                    THEN ImportRejects("Validation")
                    ELSE /\ server_id' = channel.server_id
                         /\ pc' = "import_permission"
                         /\ UNCHANGED <<db, old_db, tx, tx_begun, user_id,
                                        req, import_vars, idx, result,
                                        failed_in, restore_only>>

ImportCheckPermission ==
    /\ pc = "import_permission"
    /\ LET p == GetMemberPermissions(db, server_id, user_id)
       IN  IF ~MayManage(p[1], p[2])
           THEN ImportRejects("Forbidden")
           ELSE /\ pc' = "import_begin"
                /\ UNCHANGED <<db, old_db, tx, tx_begun, input, import_vars,
                               idx, result, failed_in, restore_only>>

ImportBegin ==
    /\ pc = "import_begin"
    /\ \/ /\ tx' = [open |-> TRUE, tables |-> db]
          /\ tx_begun' = tx_begun + 1
          /\ imported' = 0
          /\ idx' = 1
          /\ pc' = IF Len(req.messages) = 0 THEN "import_commit"
                   ELSE "import_messages"
          /\ UNCHANGED <<db, old_db, input, channel_id, calls, result,
                         failed_in, restore_only>>
       \/ ImportStoreFails

\* a message equal to one the channel holds is not inserted again
InsertMessageOnce(t, id, channel, msg) ==
    IF \E r \in t.messages : [r EXCEPT !.id = id] = MessageRow(id, channel, msg)
    THEN t
    ELSE [t EXCEPT !.id_seq = id,
                   !.messages = @ \cup {MessageRow(id, channel, msg)}]

\* INSERT INTO messages (id, channel_id, ...) VALUES (...)
InsertMessage(t, id, channel, msg) ==
    [t EXCEPT !.id_seq = id,
              !.messages = @ \cup {MessageRow(id, channel, msg)}]

\* one turn of the loop over req.messages
ImportOneMessage ==
    /\ pc = "import_messages"
    /\ LET msg == req.messages[idx]
       IN  IF \/ ~Base64Decode(msg.sender_token).ok
              \/ ~Base64Decode(msg.encrypted_body).ok
              \/ ~ParseTimestamp(msg.timestamp).ok
           THEN ImportRejects("Validation")
           ELSE \/ /\ tx' = [open |-> TRUE,
                             tables |-> InsertMessage(tx.tables,
                                            FreshId(tx.tables), channel_id,
                                            msg)]
                   /\ imported' = imported + 1
                   /\ idx' = IF idx = Len(req.messages) THEN 1 ELSE idx + 1
                   /\ pc' = IF idx = Len(req.messages) THEN "import_commit"
                            ELSE "import_messages"
                   /\ UNCHANGED <<db, old_db, tx_begun, input, channel_id,
                                  calls, result, failed_in, restore_only>>
                \/ ImportStoreFails

\* tx.commit().await? and the response
ImportCommit ==
    /\ pc = "import_commit"
    /\ \/ /\ db' = tx.tables
          /\ tx' = NoTx
          /\ result' = [status |-> "Ok", imported |-> imported]
          /\ pc' = "done"
          /\ idx' = 1
          /\ imported' = 0
          /\ UNCHANGED <<old_db, tx_begun, input, channel_id, calls,
                         failed_in, restore_only>>
       \/ ImportStoreFails

\* the client sends the batch of a call that succeeded once more
Resubmit ==
    /\ pc = "done"
    /\ result.status = "Ok"
    /\ calls < MaxCalls
    /\ calls' = calls + 1
    /\ pc' = "import_size"
    /\ result' = NoResult
    /\ server_id' = NoRef
    /\ UNCHANGED <<db, old_db, tx, tx_begun, user_id, req, channel_id,
                   imported, idx, failed_in, restore_only>>

NextImport ==
    \/ ImportValidateSize
    \/ ImportFindChannel
    \/ ImportCheckPermission
    \/ ImportBegin
    \/ ImportOneMessage
    \/ ImportCommit
    \/ Resubmit

SpecImport == InitImport /\ [][NextImport]_vars

\* the same handler, serving the batches at the cap
SpecImportCaps == InitImportCaps /\ [][NextImport]_vars

-----------------------------------------------------------------------------
(* verify_export.  Anyone may ask whether a signature is the exporter's    *)
(* over a manifest.                                                        *)

MaxKeys == 2            \* entries of the manifest a request carries

\* The JSON values of a manifest: a string, or an object with a user_id
\* (NoRef: without one, or with one that is no string).
UserRefs ==
    {"00000000-0000-0000-0000-000000000015",
     "00000000-0000-0000-0000-000000000016",
     "00000000-0000-0000-0000-000000000017",
     "00000000-0000-0000-0000-00000000001d", "not-a-uuid", NoRef}

JsonValues ==
    [kind : {"string"}, text : {"x", "y"}, user_id : {NoRef}]
    \cup [kind : {"object"}, text : {NoRef}, user_id : UserRefs]

\* the keys of a manifest, in the order of their bytes
ManifestKeys == <<"exported_by", "note">>

\* the text of a manifest as a client writes it: its entries in any order,
\* a key possibly more than once
ManifestTexts ==
    UNION {[1..n -> [key : {"exported_by", "note"}, value : JsonValues]] :
              n \in 0..MaxKeys}

\* Json(req) into serde_json::Value: an object is a map of its keys, the
\* last entry of a key taken
ParseJson(text) ==
    [k \in {text[i].key : i \in DOMAIN text} |->
        text[CHOOSE i \in DOMAIN text :
                /\ text[i].key = k
                /\ \A j \in DOMAIN text : text[j].key = k => j <= i].value]

\* serde_json::to_vec of a Value: the entries of the map in key order
ToVec(value) ==
    LET present == SelectSeq(ManifestKeys, LAMBDA k : k \in DOMAIN value)
    IN  [i \in 1..Len(present) |->
            [key |-> present[i], value |-> value[present[i]]]]

\* manifest.get("exported_by").get("user_id").as_str().parse::<Uuid>()
ExportedBy(manifest) ==
    IF "exported_by" \notin DOMAIN manifest THEN NoId
    ELSE IF manifest["exported_by"].kind # "object" THEN NoId
    ELSE ParseUuid(manifest["exported_by"].user_id)

\* Ed25519.  A key pair is named; its public key is 32 bytes that encode a
\* point, and a signature is the 64 bytes a pair makes over a message,
\* intact or with a bit flipped.
KeyPairs == {"k1", "k2"}
PublicKey(pair) == [len |-> 32, point |-> pair]
Sign(pair, message) ==
    [len |-> 64, signed_by |-> pair, over |-> message, intact |-> TRUE]
FlipBit(sig) == [sig EXCEPT !.intact = FALSE]
Resize(sig, n) == [sig EXCEPT !.len = n]

\* VerifyingKey::from_bytes: 32 bytes that encode no point are refused
VerifyingKeyFromBytes(key) ==
    IF key.point \in KeyPairs THEN Value(key.point) ELSE Failed

\* a signature is taken for valid whatever message it is over
VerifyAnyMessage(pair, message, sig) == sig.intact /\ sig.signed_by = pair

\* Verifier::verify(&canonical, &sig).is_ok()
Verify(pair, message, sig) ==
    sig.intact /\ sig.signed_by = pair /\ sig.over = message

\* base64 STANDARD decoding of the signature text
DecodeSignature(text) ==
    IF text.encoding = "base64" THEN Value(text.bytes) ELSE Failed

\* the signatures a request may carry with the manifest m: the exporter's,
\* another pair's, one over another serialization, one with a bit flipped,
\* ones of 63 and 65 bytes, and a text that is no base64
SignaturesFor(m) ==
    LET canonical == ToVec(m)
        other == Append(canonical,
                        [key |-> "zz",
                         value |-> [kind |-> "string", text |-> "x",
                                    user_id |-> NoRef]])
        good == Sign("k1", canonical)
    IN  {[encoding |-> "base64", bytes |-> b] :
            b \in {good, Sign("k2", canonical), Sign("k1", other),
                   FlipBit(good), Resize(good, 63), Resize(good, 65)}}
        \cup {[encoding |-> "no base64", bytes |-> good]}

\* The users: alice registered the public key of the pair k1, bob a key of
\* 33 bytes, carol 32 bytes that encode no point.
VerifyDb ==
    [users |->
        {[id |-> 21, username |-> "alice", display_name |-> "Alice",
          identity_key |-> PublicKey("k1")],
         [id |-> 22, username |-> "bob", display_name |-> NoRef,
          identity_key |-> [len |-> 33, point |-> "k1"]],
         [id |-> 23, username |-> "carol", display_name |-> NoRef,
          identity_key |-> [len |-> 32, point |-> "none"]]}]

\* queries::find_user_by_id
FindUserById(d, id) == {u \in d.users : u.id = id}

\* a handler that is not running: its locals hold their first values
NoRestore ==
    /\ tx = NoTx
    /\ tx_begun = 0
    /\ idx = 1
    /\ category_map = EmptyMap
    /\ role_map = EmptyMap
    /\ channel_map = EmptyMap
    /\ categories_created = 0
    /\ channels_created = 0
    /\ roles_created = 0
    /\ roles_updated = 0
    /\ overwrites_applied = 0
    /\ existing_everyone = NoId
    /\ failed_in = "none"
    /\ audit_log = << >>
    /\ published = << >>

NoImport == channel_id = NoId /\ imported = 0 /\ calls = 0

InitVerify ==
    /\ db = VerifyDb
    /\ old_db = db
    /\ pc = "verify_manifest"
    /\ user_id = NoRef
    /\ server_id = NoRef
    /\ \E text \in ManifestTexts :
          \E signature \in SignaturesFor(ParseJson(text)) :
             req = [manifest |-> ParseJson(text), signature |-> signature]
    /\ result = NoResult
    /\ lookups = 0
    /\ verifications = 0
    /\ NoRestore
    /\ NoImport
    /\ NoBeta
    /\ NoRestores

\* what verify_export never touches
verify_frame ==
    <<db, old_db, tx, tx_begun, input, idx, failed_in, import_vars, maps,
      counters, existing_everyone, sinks, beta_vars, restores>>

VerifyRejects(e) ==
    /\ pc' = "done"
    /\ result' = [status |-> e]
    /\ UNCHANGED <<verify_frame, verify_vars>>

VerifyManifest ==
    /\ pc = "verify_manifest"
    /\ IF ExportedBy(req.manifest) = NoId
       THEN VerifyRejects("Validation")
       ELSE /\ pc' = "verify_signature"
            /\ UNCHANGED <<verify_frame, verify_vars, result>>

\* a signature of any length is let through
HasAnyLength(bytes) == TRUE

\* sig_bytes.len() == 64
HasSignatureLength(bytes) == bytes.len = 64

VerifySignature ==
    /\ pc = "verify_signature"
    /\ LET sig_bytes == DecodeSignature(req.signature)
       IN  IF ~sig_bytes.ok
           THEN VerifyRejects("Validation")
           ELSE IF ~HasSignatureLength(sig_bytes.value)
           THEN VerifyRejects("Validation")
           ELSE /\ pc' = "verify_user"
                /\ UNCHANGED <<verify_frame, verify_vars, result>>

VerifyFindUser ==
    /\ pc = "verify_user"
    /\ lookups' = lookups + 1
    /\ IF FindUserById(db, ExportedBy(req.manifest)) = {}
       THEN /\ pc' = "done"
            /\ result' = [status |-> "NotFound"]
       ELSE /\ pc' = "verify_check"
            /\ UNCHANGED result
    /\ UNCHANGED <<verify_frame, verifications>>

\* the verdict and how many times Verifier::verify was called for it
Verdict(identity_key, canonical, sig) ==
    IF identity_key.len = 32
    THEN LET verifying_key == VerifyingKeyFromBytes(identity_key)
         IN  IF verifying_key.ok
             THEN [valid |-> Verify(verifying_key.value, canonical, sig),
                   calls |-> 1]
             ELSE [valid |-> FALSE, calls |-> 0]
    ELSE [valid |-> FALSE, calls |-> 0]

VerifyCheck ==
    /\ pc = "verify_check"
    /\ LET user == CHOOSE u \in FindUserById(db, ExportedBy(req.manifest)) :
                      TRUE
           canonical == ToVec(req.manifest)
           sig_bytes == DecodeSignature(req.signature).value
       IN  IF sig_bytes.len # 64
           THEN /\ result' = [status |-> "Validation"]
                /\ UNCHANGED verifications
           ELSE LET verdict == Verdict(user.identity_key, canonical,
                                       sig_bytes)
                IN  /\ verifications' = verifications + verdict.calls
                    /\ result' =
                          [status |-> "Ok", valid |-> verdict.valid,
                           signer |-> [user_id |-> user.id,
                                       username |-> user.username,
                                       display_name |-> user.display_name],
                           identity_key_matches |-> verdict.valid]
    /\ pc' = "done"
    /\ UNCHANGED <<verify_frame, lookups>>

NextVerify ==
    \/ VerifyManifest
    \/ VerifySignature
    \/ VerifyFindUser
    \/ VerifyCheck

SpecVerify == InitVerify /\ [][NextVerify]_vars

-----------------------------------------------------------------------------

(* request_beta_code (src/api/beta.rs).  The endpoint is public; its      *)
(* requests are served concurrently, each by its own handler, and share    *)
(* the store only.  A request runs a check or a statement per step.        *)

MaxLimit == 1           \* the greatest beta_code_limit configured

EmailCap == 254

Requests == {"q1", "q2"}

\* An email address is a sequence of characters.
Lower(c) == CASE c = "A" -> "a" [] c = "X" -> "x" [] OTHER -> c

\* str::to_lowercase
ToLowercase(s) == [i \in DOMAIN s |-> Lower(s[i])]

RECURSIVE TrimStart(_)
TrimStart(s) ==
    IF s # << >> /\ Head(s) = " " THEN TrimStart(Tail(s)) ELSE s

RECURSIVE TrimEnd(_)
TrimEnd(s) ==
    IF s # << >> /\ s[Len(s)] = " " THEN TrimEnd(SubSeq(s, 1, Len(s) - 1))
    ELSE s

\* str::trim
Trim(s) == TrimEnd(TrimStart(s))

\* req.email.trim().to_lowercase()
NormalizeEmail(raw) == ToLowercase(Trim(raw))

\* an address of n characters
LongEmail(n) == [i \in 1..n |-> IF i = 2 THEN "@" ELSE "c"]

\* the addresses a request may carry: two spellings of one address, another
\* address, a text without @, blanks, and addresses of 254 and 255
\* characters
RawEmails ==
    {<<"a", "@", "x">>, <<" ", "A", "@", "X", " ">>, <<"b", "@", "x">>,
     <<"a", "b">>, <<" ", " ">>, LongEmail(EmailCap),
     LongEmail(EmailCap + 1)}

\* email.is_empty() || !email.contains('@') || email.len() > 254
IsInvalidEmail(email) ==
    \/ email = << >>
    \/ ~(\E i \in DOMAIN email : email[i] = "@")
    \/ Len(email) > EmailCap

\* hash_email: the SHA-256 digest of the address, in hexadecimal; two
\* addresses have the same digest only if they are the same
HashEmail(email) == <<"sha256", email>>

\* queries::beta_code_exists_for_email
BetaCodeExistsForEmail(d, email_hash) ==
    \E i \in d.registration_invites : i.email_hash = email_hash

\* queries::count_beta_codes
CountBetaCodes(d) == Cardinality(d.registration_invites)

\* queries::create_beta_invite: a new invite under a new code
CreateBetaInvite(d, expiry_days, email_hash) ==
    [d EXCEPT !.id_seq = @ + 1,
              !.registration_invites = @ \cup
                 {[code |-> d.id_seq + 1, email_hash |-> email_hash,
                   expiry_days |-> expiry_days]}]

\* the store: no invite yet, or one issued to the address a@x
BetaDb(issued) ==
    [id_seq |-> Cardinality(issued),
     registration_invites |->
        {[code |-> 1, email_hash |-> HashEmail(e), expiry_days |-> 7] :
            e \in issued}]

InitBeta ==
    /\ \E issued \in {{}, {<<"a", "@", "x">>}} : db = BetaDb(issued)
    /\ old_db = db
    /\ pc = "done"
    /\ user_id = NoRef
    /\ server_id = NoRef
    /\ req = [server |-> NoRef]
    /\ result = NoResult
    /\ config \in [smtp_enabled : BOOLEAN, beta_code_limit : 0..MaxLimit,
                   beta_code_expiry_days : {7}]
    /\ beta_pc = [q \in Requests |-> "smtp"]
    /\ beta_email \in [Requests -> RawEmails]
    /\ beta_outcome = [q \in Requests |-> "none"]
    /\ beta_result = [q \in Requests |-> NoResult]
    /\ outbox = {}
    /\ delivered = {}
    /\ NoRestores
    /\ lookups = 0
    /\ verifications = 0
    /\ NoRestore
    /\ NoImport

\* what request_beta_code never touches
beta_frame ==
    <<old_db, tx, tx_begun, pc, input, idx, result, failed_in, import_vars,
      verify_vars, maps, counters, existing_everyone, sinks, config,
      beta_email, restores>>

\* the request q returns r by the return called outcome
BetaReturns(q, outcome, r) ==
    /\ beta_pc' = [beta_pc EXCEPT ![q] = "done"]
    /\ beta_outcome' = [beta_outcome EXCEPT ![q] = outcome]
    /\ beta_result' = [beta_result EXCEPT ![q] = r]

\* the request q goes on to the position p
BetaGoes(q, p) ==
    /\ beta_pc' = [beta_pc EXCEPT ![q] = p]
    /\ UNCHANGED <<beta_outcome, beta_result>>

\* 1. SMTP must be configured
BetaCheckSmtp(q) ==
    /\ beta_pc[q] = "smtp"
    /\ IF ~config.smtp_enabled
       THEN BetaReturns(q, "unavailable", [status |-> "BadRequest"])
       ELSE BetaGoes(q, "email")
    /\ UNCHANGED <<beta_frame, db, outbox, delivered>>

\* 2. the address must look like one
BetaValidateEmail(q) ==
    /\ beta_pc[q] = "email"
    /\ IF IsInvalidEmail(NormalizeEmail(beta_email[q]))
       THEN BetaReturns(q, "invalid", [status |-> "Validation"])
       ELSE BetaGoes(q, "exists")
    /\ UNCHANGED <<beta_frame, db, outbox, delivered>>

\* the address is told that it has a code already
TellingResponse ==
    [status |-> "Ok", success |-> TRUE,
     message |-> "A code was already sent to this address."]

\* the response to an address that has received a code
DuplicateResponse ==
    [status |-> "Ok", success |-> TRUE,
     message |-> "If slots are available, you'll receive a code shortly."]

\* the response once the cap is reached
CappedResponse ==
    [status |-> "Ok", success |-> TRUE,
     message |-> "If slots are available, you'll receive a code shortly."]

\* the response after an invite was created
IssuedResponse ==
    [status |-> "Ok", success |-> TRUE,
     message |-> "If slots are available, you'll receive a code shortly."]

\* 3. has this address received a code?
BetaCheckIssued(q) ==
    /\ beta_pc[q] = "exists"
    /\ IF BetaCodeExistsForEmail(db,
              HashEmail(NormalizeEmail(beta_email[q])))
       THEN BetaReturns(q, "duplicate", DuplicateResponse)
       ELSE BetaGoes(q, "cap")
    /\ UNCHANGED <<beta_frame, db, outbox, delivered>>

\* 4. the global cap
BetaCheckCap(q) ==
    /\ beta_pc[q] = "cap"
    /\ IF CountBetaCodes(db) >= config.beta_code_limit
       THEN BetaReturns(q, "capped", CappedResponse)
       ELSE BetaGoes(q, "create")
    /\ UNCHANGED <<beta_frame, db, outbox, delivered>>

\* 5. to 7. create the invite, spawn the task that mails its code, answer;
\* an error of create_beta_invite is returned
BetaCreateInvite(q) ==
    /\ beta_pc[q] = "create"
    /\ \/ LET email == NormalizeEmail(beta_email[q])
             after == CreateBetaInvite(db, config.beta_code_expiry_days,
                                       HashEmail(email))
         IN  /\ db' = after
             /\ outbox' = outbox \cup {[to |-> email, code |-> after.id_seq]}
             /\ BetaReturns(q, "issued", IssuedResponse)
       \/ /\ BetaReturns(q, "failed", [status |-> "Internal"])
          /\ UNCHANGED <<db, outbox>>
    /\ UNCHANGED <<beta_frame, delivered>>

\* the spawned task: send_beta_email succeeds or fails; the invite stays
SendBetaEmail ==
    /\ \E mail \in outbox :
          /\ outbox' = outbox \ {mail}
          /\ \/ delivered' = delivered \cup {mail}
             \/ delivered' = delivered
    /\ UNCHANGED <<beta_frame, db, beta_pc, beta_outcome, beta_result>>

NextBeta ==
    \/ \E q \in Requests : BetaCheckSmtp(q)
    \/ \E q \in Requests : BetaValidateEmail(q)
    \/ \E q \in Requests : BetaCheckIssued(q)
    \/ \E q \in Requests : BetaCheckCap(q)
    \/ \E q \in Requests : BetaCreateInvite(q)
    \/ SendBetaEmail

SpecBeta == InitBeta /\ [][NextBeta]_vars

-----------------------------------------------------------------------------

(* Two restore_server calls on one server, served concurrently.  Each has  *)
(* its own locals and its own transaction; they share the store only.  The *)
(* store is PostgreSQL at its default isolation level, READ COMMITTED      *)
(* (pool.begin() sets none): a statement sees the committed rows and the   *)
(* work of its own transaction; a row a transaction deleted or updated is  *)
(* locked until that transaction ends, and a statement that would delete   *)
(* or update a row locked by another transaction waits for it.  A waiting  *)
(* DELETE or UPDATE goes on with the rows as committed by then; no         *)
(* transaction of restore_server inserts rows into a table whose DELETE    *)
(* can wait, so this is what running the statement then does.  At the      *)
(* stricter levels the waiting statement fails instead, which is the       *)
(* failure any statement may end in here.                                  *)

Callers == {"r1", "r2"}

\* the tables of rows a transaction of restore_server writes
RowTables ==
    {"categories", "channels", "channel_members", "roles", "member_roles",
     "channel_permission_overwrites", "messages", "attachments", "reactions",
     "reports"}

NoRows == [n \in RowTables |-> {}]

\* the tables as a statement of the call r sees them
View(r) ==
    [n \in DOMAIN db |->
        CASE n = "id_seq" -> db.id_seq
          [] n = "server_members" -> db.server_members
          [] n = "system_channel_id" ->
               [s \in DOMAIN db.system_channel_id |->
                   IF s \in r.detached THEN NoId
                   ELSE db.system_channel_id[s]]
          [] OTHER -> (db[n] \ r.del[n]) \cup r.ins[n]]

\* the committed rows a statement of r that leaves the tables t deletes or
\* replaces
Gone(r, t) == [n \in RowTables |-> (db[n] \ r.del[n]) \ t[n]]

\* an UPDATE of a servers row takes no lock
NoLockedServers(r) == {}

\* UPDATE servers SET system_channel_id = NULL WHERE id = $1: the row of
\* the server is locked until the transaction ends
LockedServers(r) == r.detached

\* a statement of the call c that deletes or replaces the rows gone and
\* updates the rows of servers has to wait for another transaction
MustWait(c, gone, servers) ==
    \E o \in Callers \ {c} :
       /\ restores[o].open
       /\ \/ \E n \in RowTables : gone[n] \cap restores[o].del[n] # {}
          \/ servers \cap LockedServers(restores[o]) # {}

\* what restore_server with concurrent callers leaves alone
race_frame ==
    <<old_db, tx, tx_begun, pc, input, idx, result, failed_in, import_vars,
      verify_vars, beta_vars, maps, counters, existing_everyone>>

\* the call c issues a statement that would leave the tables t and update
\* the rows of servers; once it has run, the call is as in after
Execute(c, t, servers, after) ==
    LET r == restores[c]
        gone == Gone(r, t)
        del == [n \in RowTables |-> r.del[n] \cup gone[n]]
    IN  /\ IF MustWait(c, gone, servers)
           THEN /\ ~r.waited
                /\ restores' = [restores EXCEPT ![c].waited = TRUE]
                /\ UNCHANGED db
           ELSE /\ restores' =
                      [restores EXCEPT ![c] =
                          [after EXCEPT
                             !.del = del,
                             !.ins = [n \in RowTables |->
                                         t[n] \ (db[n] \ del[n])],
                             !.detached = r.detached \cup servers]]
                /\ db' = [db EXCEPT !.id_seq = t.id_seq]
        /\ UNCHANGED <<race_frame, sinks>>

\* the call's locals are dropped and its transaction, if open, rolled back
Returned(r, answer) ==
    [r EXCEPT !.pc = "done", !.result = answer, !.stmt = 1, !.idx = 1,
              !.category_map = EmptyMap, !.role_map = EmptyMap,
              !.channel_map = EmptyMap, !.categories_created = 0,
              !.channels_created = 0, !.roles_created = 0,
              !.roles_updated = 0, !.overwrites_applied = 0,
              !.existing_everyone = NoId, !.open = FALSE, !.del = NoRows,
              !.ins = NoRows, !.detached = {}]

\* the call c takes a step that touches no table
Moves(c, after) ==
    /\ restores' = [restores EXCEPT ![c] = after]
    /\ UNCHANGED <<db, race_frame, sinks>>

\* the call r after entry idx of list, in the loop at position here that
\* is followed by position after
Past(r, list, here, after) ==
    [r EXCEPT !.pc = IF r.idx = Len(list) THEN after ELSE here,
              !.idx = IF r.idx = Len(list) THEN 1 ELSE r.idx + 1]

\* the first loop, from position p on, whose list has an entry
LoopFrom(q, p) ==
    LET overwrites == IF Len(q.permission_overwrites) = 0 THEN "commit"
                      ELSE "overwrites"
        roles == IF Len(q.roles) = 0 THEN overwrites ELSE "roles"
        channels == IF Len(q.channels) = 0 THEN "everyone" ELSE "channels"
        categories == IF Len(q.categories) = 0 THEN channels
                      ELSE "categories"
    IN  CASE p = "categories" -> categories
          [] p = "channels" -> channels
          [] p = "roles" -> roles
          [] p = "overwrites" -> overwrites

\* the backups of the two callers: none of the entries, or a category, a
\* text channel in it, a role and an overwrite of the channel for the
\* role, every entry named after its caller
BackupOf(c) ==
    {[b EXCEPT !.categories = [i \in DOMAIN @ |-> [@[i] EXCEPT !.name = c]],
               !.channels = [i \in DOMAIN @ |-> [@[i] EXCEPT !.name = c]],
               !.roles = [i \in DOMAIN @ |-> [@[i] EXCEPT !.name = c]]] :
        b \in BackupsOfShape(0, 0, 0, 0) \cup
              {b \in BackupsOfShape(1, 1, 1, 1) :
                  /\ b.categories[1].id = "c1"
                  /\ b.channels[1].channel_type = "text"
                  /\ b.channels[1].category_id = "c1"
                  /\ b.permission_overwrites[1].target_type = "role"}}

\* a call that has arrived
Arrived(user, backup) ==
    [pc |-> "membership", user_id |-> user, req |-> backup, stmt |-> 1,
     idx |-> 1, category_map |-> EmptyMap, role_map |-> EmptyMap,
     channel_map |-> EmptyMap, categories_created |-> 0,
     channels_created |-> 0, roles_created |-> 0, roles_updated |-> 0,
     overwrites_applied |-> 0, existing_everyone |-> NoId, open |-> FALSE,
     del |-> NoRows, ins |-> NoRows, detached |-> {}, waited |-> FALSE,
     result |-> NoResult]

\* the server as seeded, or as a restore of an empty backup left it
InitRace ==
    /\ db \in {SeedDb(TRUE), WipeTables(SeedDb(TRUE), "s1")}
    /\ old_db = db
    /\ pc = "done"
    /\ user_id = NoRef
    /\ server_id = "s1"
    /\ req = [server |-> NoRef]
    /\ result = NoResult
    /\ \E users \in [Callers -> {"owner", "mod", "plain"}] :
          \E backups \in [Callers -> UNION {BackupOf(c) : c \in Callers}] :
             /\ \A c \in Callers : backups[c] \in BackupOf(c)
             /\ restores = [c \in Callers |-> Arrived(users[c], backups[c])]
    /\ lookups = 0
    /\ verifications = 0
    /\ NoRestore
    /\ NoImport
    /\ NoBeta

CheckMembershipOf(c) ==
    LET r == restores[c]
    IN  /\ r.pc = "membership"
        /\ IF ~IsServerMember(db, server_id, r.user_id)
           THEN Moves(c, Returned(r, [status |-> "Forbidden"]))
           ELSE Moves(c, [r EXCEPT !.pc = "permission"])

CheckPermissionOf(c) ==
    LET r == restores[c]
        p == GetMemberPermissions(db, server_id, r.user_id)
    IN  /\ r.pc = "permission"
        /\ IF ~MayManage(p[1], p[2])
           THEN Moves(c, Returned(r, [status |-> "Forbidden"]))
           ELSE Moves(c, [r EXCEPT !.pc = "limits"])

ValidateLimitsOf(c) ==
    LET r == restores[c]
    IN  /\ r.pc = "limits"
        /\ IF ~WithinLimits(r.req)
           THEN Moves(c, Returned(r, [status |-> "Validation"]))
           ELSE Moves(c, [r EXCEPT !.pc = "begin"])

\* pool.begin()
BeginOf(c) ==
    LET r == restores[c]
    IN  /\ r.pc = "begin"
        /\ Moves(c, [r EXCEPT !.pc = "wipe", !.open = TRUE])

\* the statements of the wipe phase, in the order of the code
WipeStatements ==
    <<"attachments", "reactions", "reports", "servers", "channels",
      "channel_categories", "roles">>

\* the tables t after the wipe statement on the table called name
WipeStatement(name, t, s) ==
    CASE name = "attachments" -> DeleteAttachments(t, s)
      [] name = "reactions" -> DeleteReactions(t, s)
      [] name = "reports" -> DeleteReports(t, s)
      [] name = "servers" -> DetachSystemChannel(t, s)
      [] name = "channels" -> DeleteChannels(t, s)
      [] name = "channel_categories" -> DeleteCategories(t, s)
      [] name = "roles" -> DeleteRoles(t, s)

\* one statement of the wipe phase
WipeOf(c) ==
    LET r == restores[c]
        name == WipeStatements[r.stmt]
        last == r.stmt = Len(WipeStatements)
    IN  /\ r.pc = "wipe"
        /\ Execute(c, WipeStatement(name, View(r), server_id),
                   IF name = "servers" THEN {server_id} ELSE {},
                   [r EXCEPT !.stmt = IF last THEN 1 ELSE r.stmt + 1,
                             !.pc = IF last
                                    THEN LoopFrom(r.req, "categories")
                                    ELSE "wipe"])

CreateCategoryOf(c) ==
    LET r == restores[c]
        cat == r.req.categories[r.idx]
        new_id == FreshId(View(r))
        onward == Past(r, r.req.categories, "categories",
                       LoopFrom(r.req, "channels"))
    IN  /\ r.pc = "categories"
        /\ Execute(c, InsertCategory(View(r), server_id, cat, new_id), {},
                   [onward EXCEPT
                      !.category_map = Put(r.category_map, cat.id, new_id),
                      !.categories_created = r.categories_created + 1])

CreateChannelOf(c) ==
    LET r == restores[c]
        ch == r.req.channels[r.idx]
        onward == Past(r, r.req.channels, "channels", "everyone")
        new_category_id == ResolveCategory(r.category_map, ch)
        new_channel_id == FreshId(View(r))
        with_channel == InsertChannel(View(r), server_id, ch,
                                      new_channel_id, new_category_id)
    IN  /\ r.pc = "channels"
        /\ IF IsDirectMessage(ch)
           THEN Moves(c, onward)
           ELSE Execute(c,
                    InsertChannelMember(with_channel, FreshId(with_channel),
                                        new_channel_id, r.user_id),
                    {},
                    [onward EXCEPT
                       !.channel_map =
                           Put(r.channel_map, ch.id, new_channel_id),
                       !.channels_created = r.channels_created + 1])

FindEveryoneOf(c) ==
    LET r == restores[c]
        found == DefaultRoleIds(View(r), server_id)
    IN  /\ r.pc = "everyone"
        /\ \E id \in IF found = {} THEN {NoId} ELSE found :
              Moves(c, [r EXCEPT !.existing_everyone = id,
                                 !.pc = LoopFrom(r.req, "roles")])

RestoreRoleOf(c) ==
    LET r == restores[c]
        role == r.req.roles[r.idx]
        onward == Past(r, r.req.roles, "roles",
                       LoopFrom(r.req, "overwrites"))
        new_id == FreshId(View(r))
    IN  /\ r.pc = "roles"
        /\ IF role.is_default
           THEN IF r.existing_everyone # NoId
                THEN Execute(c,
                         UpdateRolePermissions(View(r), r.existing_everyone,
                                               role.permissions),
                         {},
                         [onward EXCEPT
                            !.role_map = Put(r.role_map, role.id,
                                             r.existing_everyone),
                            !.roles_updated = r.roles_updated + 1])
                ELSE Moves(c, onward)
           ELSE Execute(c, InsertRole(View(r), server_id, role, new_id), {},
                        [onward EXCEPT
                           !.role_map = Put(r.role_map, role.id, new_id),
                           !.roles_created = r.roles_created + 1])

ApplyOverwriteOf(c) ==
    LET r == restores[c]
        ow == r.req.permission_overwrites[r.idx]
        onward == Past(r, r.req.permission_overwrites, "overwrites",
                       "commit")
        new_channel_id == Get(r.channel_map, ow.channel_id)
        new_target_id == Get(r.role_map, ow.target_id)
    IN  /\ r.pc = "overwrites"
        /\ IF \/ IsMemberOverwrite(ow)
              \/ new_channel_id = NoId
              \/ new_target_id = NoId
           THEN Moves(c, onward)
           ELSE Execute(c,
                    UpsertOverwrite(View(r), new_channel_id, ow.target_type,
                                    new_target_id, ow.allow, ow.deny),
                    {},
                    [onward EXCEPT
                       !.overwrites_applied = r.overwrites_applied + 1])

\* tx.commit(): the work of the transaction becomes the committed rows and
\* its locks are released
CommitOf(c) ==
    LET r == restores[c]
    IN  /\ r.pc = "commit"
        /\ db' = View(r)
        /\ restores' = [restores EXCEPT ![c] =
              [r EXCEPT !.pc = "audit", !.open = FALSE, !.del = NoRows,
                        !.ins = NoRows, !.detached = {}]]
        /\ UNCHANGED <<race_frame, sinks>>

\* a statement of the transaction, its begin or its commit returns an
\* error: `?' returns it and the transaction is rolled back
StoreFailsOf(c) ==
    LET r == restores[c]
    IN  /\ r.pc \in {"begin", "wipe", "categories", "channels", "everyone",
                     "roles", "overwrites", "commit"}
        /\ Moves(c, Returned(r, [status |-> "Internal"]))

\* the audit entry, written or not, and the broadcast
AnnounceOf(c) ==
    LET r == restores[c]
        row == [server_id |-> server_id, user_id |-> r.user_id,
                action |-> "server_restore", target_type |-> "server",
                target_id |-> server_id,
                changes |-> [source_server_name |-> r.req.server.name,
                             categories_created |-> r.categories_created,
                             channels_created |-> r.channels_created,
                             roles_created |-> r.roles_created]]
    IN  /\ r.pc = "audit"
        /\ audit_log' \in {Append(audit_log, row), audit_log}
        /\ published' = Append(published,
                               [server_id |-> server_id,
                                message |-> "ServerUpdated"])
        /\ restores' = [restores EXCEPT ![c].pc = "respond"]
        /\ UNCHANGED <<db, race_frame>>

RespondOf(c) ==
    LET r == restores[c]
    IN  /\ r.pc = "respond"
        /\ Moves(c, Returned(r,
              [status |-> "Ok",
               categories_created |-> r.categories_created,
               channels_created |-> r.channels_created,
               roles_created |-> r.roles_created,
               roles_updated |-> r.roles_updated,
               overwrites_applied |-> r.overwrites_applied,
               channel_id_map |-> ChannelIdMap(r.channel_map)]))

NextRace ==
    \/ \E c \in Callers : CheckMembershipOf(c)
    \/ \E c \in Callers : CheckPermissionOf(c)
    \/ \E c \in Callers : ValidateLimitsOf(c)
    \/ \E c \in Callers : BeginOf(c)
    \/ \E c \in Callers : WipeOf(c)
    \/ \E c \in Callers : CreateCategoryOf(c)
    \/ \E c \in Callers : CreateChannelOf(c)
    \/ \E c \in Callers : FindEveryoneOf(c)
    \/ \E c \in Callers : RestoreRoleOf(c)
    \/ \E c \in Callers : ApplyOverwriteOf(c)
    \/ \E c \in Callers : CommitOf(c)
    \/ \E c \in Callers : StoreFailsOf(c)
    \/ \E c \in Callers : AnnounceOf(c)
    \/ \E c \in Callers : RespondOf(c)

SpecRace == InitRace /\ [][NextRace]_vars

-----------------------------------------------------------------------------

TypeOK ==
    /\ pc \in {"membership", "permission", "limits", "begin", "wipe",
               "categories", "channels", "everyone", "roles", "overwrites",
               "commit", "audit", "broadcast", "respond", "done",
               "import_size", "import_channel", "import_permission",
               "import_begin", "import_messages", "import_commit",
               "verify_manifest", "verify_signature", "verify_user",
               "verify_check"}
    /\ tx.open \in BOOLEAN
    /\ result.status \in {"none", "Ok", "Forbidden", "Validation", "Internal",
                          "NotFound"}
    /\ imported \in 0..(BatchCap + MaxBatch)
    /\ calls \in 0..MaxCalls
    /\ lookups \in 0..1
    /\ verifications \in 0..1
    /\ config.smtp_enabled \in BOOLEAN
    /\ \A q \in DOMAIN beta_pc :
          /\ beta_pc[q] \in {"smtp", "email", "exists", "cap", "create",
                              "done"}
          /\ beta_result[q].status
                \in {"none", "Ok", "BadRequest", "Validation", "Internal"}

-----------------------------------------------------------------------------
(* What the claims speak of *)

CategoriesOf(d, s) == {c \in d.categories : c.server_id = s}
ChannelsOf(d, s) == {c \in d.channels : c.server_id = s}
RolesOf(d, s) == {r \in d.roles : r.server_id = s}
OverwritesOf(d, s) ==
    {o \in d.channel_permission_overwrites :
        \E c \in ChannelsOf(d, s) : c.id = o.channel_id}

\* the structural tables of a server
Structure(d, s) ==
    [categories |-> CategoriesOf(d, s), channels |-> ChannelsOf(d, s),
     roles |-> RolesOf(d, s), overwrites |-> OverwritesOf(d, s)]

Committed == pc \in {"audit", "broadcast", "respond"} \/ result.status = "Ok"

\* the caller is no member of the server, or a member who is neither its
\* owner nor holds MANAGE_SERVER
Unauthorized ==
    \A m \in old_db.server_members :
        (m.server_id = server_id /\ m.user_id = user_id)
            => (~m.is_owner /\ MANAGE_SERVER \notin m.permissions)

\* the rows of a table in the order of their identifiers, which is the
\* order of their creation
ById(rows) ==
    [i \in 1..Cardinality(rows) |->
        CHOOSE r \in rows : Cardinality({q \in rows : q.id < r.id}) = i - 1]

ServerOwned(ch) == ch.channel_type \notin {"dm", "group_dm"}
CustomRole(r) == ~r.is_default

\* the rows a complete restore of the backup leaves, in backup order
RestoredCategories ==
    /\ Len(ById(CategoriesOf(db, server_id))) = Len(req.categories)
    /\ \A i \in 1..Len(req.categories) :
          LET row == ById(CategoriesOf(db, server_id))[i]
          IN  /\ row.name = req.categories[i].name
              /\ row.position = req.categories[i].position

RestoredChannels ==
    LET wanted == SelectSeq(req.channels, ServerOwned)
        rows == ById(ChannelsOf(db, server_id))
    IN  /\ Len(rows) = Len(wanted)
        /\ \A i \in 1..Len(wanted) :
              /\ rows[i].name = wanted[i].name
              /\ rows[i].channel_type = wanted[i].channel_type
              /\ rows[i].position = wanted[i].position
              /\ rows[i].is_private = wanted[i].is_private

RestoredRoles ==
    LET wanted == SelectSeq(req.roles, CustomRole)
        rows == ById({r \in RolesOf(db, server_id) : ~r.is_default})
    IN  /\ Len(rows) = Len(wanted)
        /\ \A i \in 1..Len(wanted) :
              /\ rows[i].name = wanted[i].name
              /\ rows[i].color = wanted[i].color
              /\ rows[i].permissions = wanted[i].permissions
              /\ rows[i].position = wanted[i].position

\* C1: restore_server is atomic.  A store statement that fails, at any step
\* of the transaction or at the commit, makes the call return an error and
\* leaves the categories, channels, roles and overwrites of the server as
\* they were before the call; the committed tables differ from those before
\* the call only once the transaction has committed, and then they hold
\* the whole backup: no partly built structure is ever observable.
C1_RestoreIsAtomic ==
    /\ failed_in # "none" =>
          /\ pc = "done"
          /\ result.status = "Internal"
          /\ Structure(db, server_id) = Structure(old_db, server_id)
    /\ Structure(db, server_id) # Structure(old_db, server_id) =>
          /\ Committed
          /\ RestoredCategories /\ RestoredChannels /\ RestoredRoles

\* a statement failed after the transaction had created a channel and more
C1_Witness ==
    /\ failed_in \in {"roles", "overwrites", "commit"}
    /\ \E i \in 1..Len(req.channels) : ServerOwned(req.channels[i])
    /\ Len(req.categories) > 0
    /\ db = old_db

OverTheCaps ==
    \/ Len(req.categories) > 50
    \/ Len(req.channels) > 500
    \/ Len(req.roles) > 250

\* C3: the caps are checked on the whole backup before any mutation.  An
\* authorized request with more than 50 categories, more than 500 channels
\* or more than 250 roles ends with Validation, no transaction begun and
\* the store as it was; a backup of exactly 50 categories, 500 channels and
\* 250 roles is never answered with Validation.
C3_CapsBeforeMutation ==
    /\ (~Unauthorized /\ OverTheCaps) =>
          /\ pc \in {"membership", "permission", "limits", "done"}
          /\ pc = "done" => result.status = "Validation"
          /\ tx_begun = 0
          /\ ~tx.open
          /\ db = old_db
    /\ ~OverTheCaps => result.status # "Validation"
    /\ (~Unauthorized /\ ~OverTheCaps /\ pc = "done") =>
          result.status \in {"Ok", "Internal"}

\* a backup of exactly 50 categories, 500 channels and 250 roles went
\* through and was restored
C3_Witness ==
    /\ Len(req.categories) = 50
    /\ Len(req.channels) = 500
    /\ Len(req.roles) = 250
    /\ result.status = "Ok"
    /\ result.channels_created = 500

DefaultRolesOf(d, s) == {r \in RolesOf(d, s) : r.is_default}

\* the role of the tables d that carries the identifier of r and differs
\* from r in its permissions at most
SameRoleIn(d, r) ==
    {q \in d.roles : q.id = r.id /\ [q EXCEPT !.permissions = r.permissions] = r}

\* the positions of the backup's roles marked default
DefaultEntries == {i \in 1..Len(req.roles) : req.roles[i].is_default}

\* C4: restore never deletes the default role.  In every state, in the
\* committed tables and in the open transaction, the default role the
\* server had before the call is there under the same identifier, changed
\* in its permissions at most.  A call that fails leaves its permissions
\* too.  After a restore that succeeds no other default role exists, the
\* default role carries the permissions of the backup's last default entry
\* (its own when the backup has none), and roles_created counts the
\* backup's other roles only, each of which is a new row.
C4_DefaultRoleKept ==
    \A r \in DefaultRolesOf(old_db, server_id) :
        /\ SameRoleIn(db, r) # {}
        /\ tx.open => SameRoleIn(tx.tables, r) # {}
        /\ (pc = "done" /\ result.status # "Ok") => r \in db.roles
        /\ result.status = "Ok" =>
              /\ {q.id : q \in DefaultRolesOf(db, server_id)} = {r.id}
              /\ \A q \in SameRoleIn(db, r) :
                    q.permissions =
                        IF DefaultEntries = {} THEN r.permissions
                        ELSE req.roles[CHOOSE i \in DefaultEntries :
                                 \A j \in DefaultEntries : j <= i].permissions
              /\ result.roles_created = Len(SelectSeq(req.roles, CustomRole))
              /\ Cardinality(RolesOf(db, server_id)) = 1 + result.roles_created

\* a backup with a default role and another role was restored on a server
\* with a default role, whose permissions changed
C4_Witness ==
    /\ result.status = "Ok"
    /\ DefaultEntries # {}
    /\ result.roles_created = 1
    /\ result.roles_updated = 1
    /\ \E r \in DefaultRolesOf(old_db, server_id) :
          \E q \in SameRoleIn(db, r) : q.permissions # r.permissions

OldIds(rows) == {r.id : r \in rows}

\* C5: a restore that succeeds replaces the whole structure.  No category,
\* channel, role other than the default one, or overwrite the server had
\* before the call remains, and its categories, channels and roles other
\* than the default one are those of the backup: one per category, one per
\* channel that is not dm or group_dm, one per role not marked default, in
\* backup order and with the backup's fields.
C5_HierarchyReplaced ==
    result.status = "Ok" =>
        /\ OldIds(CategoriesOf(db, server_id))
              \cap OldIds(CategoriesOf(old_db, server_id)) = {}
        /\ OldIds(ChannelsOf(db, server_id))
              \cap OldIds(ChannelsOf(old_db, server_id)) = {}
        /\ OldIds({r \in RolesOf(db, server_id) : ~r.is_default})
              \cap OldIds(RolesOf(old_db, server_id)) = {}
        /\ \A o \in db.channel_permission_overwrites :
              /\ o \notin OverwritesOf(old_db, server_id)
              /\ o.channel_id \notin OldIds(ChannelsOf(old_db, server_id))
        /\ RestoredCategories
        /\ RestoredChannels
        /\ RestoredRoles
        /\ result.categories_created = Len(req.categories)

\* a backup of a category, a channel and a role was restored over the old
\* structure
C5_Witness ==
    /\ result.status = "Ok"
    /\ Len(req.categories) = 1
    /\ Len(SelectSeq(req.channels, ServerOwned)) = 1
    /\ Len(SelectSeq(req.roles, CustomRole)) = 1
    /\ CategoriesOf(old_db, server_id) # {}
    /\ ChannelsOf(old_db, server_id) # {}
    /\ OverwritesOf(old_db, server_id) # {}

\* the positions of the backup's categories called ref
EntriesCalled(ref) ==
    {j \in 1..Len(req.categories) : req.categories[j].id = ref}

Dangling(ch) ==
    ch.category_id # NoRef /\ EntriesCalled(ch.category_id) = {}

\* the category a restored channel belongs under: that of the last entry
\* of the backup its reference names, none when it names no entry
ExpectedCategory(ch) ==
    IF ch.category_id = NoRef \/ Dangling(ch) THEN NoId
    ELSE ById(CategoriesOf(db, server_id))
            [CHOOSE j \in EntriesCalled(ch.category_id) :
                \A k \in EntriesCalled(ch.category_id) : k <= j].id

\* C6: a channel whose category reference is absent or names no category
\* of the backup is created without category and counted; it is not
\* rejected and does not fail the restore: unless a store statement fails,
\* an authorized restore ends Ok.  A channel whose reference resolves is
\* created under the new category of the entry it names.
C6_CategoryReference ==
    /\ (~Unauthorized /\ pc = "done" /\ failed_in = "none") =>
          result.status = "Ok"
    /\ result.status = "Ok" =>
          LET wanted == SelectSeq(req.channels, ServerOwned)
              rows == ById(ChannelsOf(db, server_id))
          IN  /\ result.channels_created = Len(wanted)
              /\ Len(rows) = Len(wanted)
              /\ \A i \in 1..Len(wanted) :
                    rows[i].category_id = ExpectedCategory(wanted[i])

\* a channel naming a category the backup lacks was restored, without
\* category, next to a restored category
C6_Witness ==
    /\ result.status = "Ok"
    /\ Len(req.categories) > 0
    /\ \E i \in 1..Len(req.channels) :
          ServerOwned(req.channels[i]) /\ Dangling(req.channels[i])
    /\ \E c \in ChannelsOf(db, server_id) : c.category_id = NoId
    /\ result.channels_created = 1

\* the memberships of the channels of a server
MembershipsOf(d, s) ==
    {m \in d.channel_members : m.channel_id \in OldIds(ChannelsOf(d, s))}

\* the backup's channels of type dm or group_dm among its first n
FilteredOut(n) ==
    {i \in 1..n : i <= Len(req.channels) /\ ~ServerOwned(req.channels[i])}

\* what C7 says of the rows: while the channels are created and after a
\* restore that succeeded, the server has one channel and one membership,
\* the caller's, per backup channel read so far that is neither dm nor
\* group_dm, none of them of type dm or group_dm, and channels_created
\* counts exactly these
NoRowForDm(t, n, created) ==
    /\ created = n - Cardinality(FilteredOut(n))
    /\ Cardinality(ChannelsOf(t, server_id)) = created
    /\ \A c \in ChannelsOf(t, server_id) : ServerOwned(c)
    /\ Cardinality(MembershipsOf(t, server_id)) = created
    /\ \A m \in MembershipsOf(t, server_id) : m.user_id = user_id

\* C7 as claimed: channels of type dm or group_dm are filtered out, no row
\* and no membership is created for them, channels_created counts the
\* other channels, and the local id of a filtered channel never appears in
\* the returned channel identifier map.
C7_AsClaimed ==
    /\ (pc = "channels" /\ tx.open) =>
          NoRowForDm(tx.tables, idx - 1, channels_created)
    /\ result.status = "Ok" =>
          /\ NoRowForDm(db, Len(req.channels), result.channels_created)
          /\ \A i \in FilteredOut(Len(req.channels)) :
                req.channels[i].id \notin DOMAIN result.channel_id_map

\* C7, amended: as claimed, but the local id of a filtered channel appears
\* in the returned map exactly when a channel of the backup that is
\* neither dm nor group_dm carries the same local id; the entry is then
\* that channel's.
C7_DmFilteredOut ==
    /\ (pc = "channels" /\ tx.open) =>
          NoRowForDm(tx.tables, idx - 1, channels_created)
    /\ result.status = "Ok" =>
          /\ NoRowForDm(db, Len(req.channels), result.channels_created)
          /\ \A i \in FilteredOut(Len(req.channels)) :
                req.channels[i].id \in DOMAIN result.channel_id_map
                   <=> \E j \in 1..Len(req.channels) :
                          /\ ServerOwned(req.channels[j])
                          /\ req.channels[j].id = req.channels[i].id
          /\ \A k \in DOMAIN result.channel_id_map :
                \E c \in ChannelsOf(db, server_id) :
                   result.channel_id_map[k] = <<"uuid", c.id>>

\* a backup with a group_dm and a text channel of different local ids was
\* restored
C7_Witness ==
    /\ result.status = "Ok"
    /\ \E i, k \in 1..Len(req.channels) :
          /\ req.channels[i].channel_type = "group_dm"
          /\ req.channels[k].channel_type = "text"
          /\ req.channels[i].id # req.channels[k].id
          /\ DOMAIN result.channel_id_map = {req.channels[k].id}
    /\ result.channels_created = 1

\* the overwrites of the backup, among its first n, that are not
\* member overwrites
NotForMember(n) ==
    {i \in 1..n : /\ i <= Len(req.permission_overwrites)
                  /\ req.permission_overwrites[i].target_type # "member"}

\* the overwrite rows of the committed tables and of the open transaction
OverwriteRows ==
    db.channel_permission_overwrites \cup
    (IF tx.open THEN tx.tables.channel_permission_overwrites ELSE {})

\* C9: an overwrite with target_type member is never applied: no row with
\* that target type is ever written, even when its channel and its target
\* resolve, and overwrites_applied counts no such overwrite.
C9_MemberOverwriteSkipped ==
    /\ \A o \in OverwriteRows : o.target_type # "member"
    /\ pc = "overwrites" =>
          overwrites_applied <= Cardinality(NotForMember(idx - 1))
    /\ result.status = "Ok" =>
          result.overwrites_applied
             <= Cardinality(NotForMember(Len(req.permission_overwrites)))

\* a member overwrite naming a restored channel and a restored role was
\* read by a restore that succeeded, and nothing was applied
C9_Witness ==
    /\ result.status = "Ok"
    /\ \E i \in 1..Len(req.permission_overwrites) :
          LET ow == req.permission_overwrites[i]
          IN  /\ ow.target_type = "member"
              /\ \E j \in 1..Len(req.channels) :
                    /\ ServerOwned(req.channels[j])
                    /\ req.channels[j].id = ow.channel_id
              /\ \E j \in 1..Len(req.roles) :
                    /\ CustomRole(req.roles[j])
                    /\ req.roles[j].id = ow.target_id
    /\ result.channels_created = 1
    /\ result.roles_created = 1
    /\ result.overwrites_applied = 0
    /\ OverwritesOf(db, server_id) = {}

\* C10: only overwrites with target_type role survive a restore: every
\* overwrite row restore_server writes has target_type role, whatever the
\* backup puts in the field.
C10_OnlyRoleOverwrites ==
    \A o \in db.channel_permission_overwrites : o.target_type = "role"

\* C8: the end-to-end scenario.  On a server with a default role, the
\* backup of 2 categories, 5 channels (1 of type dm), the default role and
\* 2 other roles, 3 role overwrites and 1 member overwrite is answered, when
\* no store statement fails, with categories_created = 2,
\* channels_created = 4, roles_created = 2, roles_updated = 1,
\* overwrites_applied = 3 and a channel identifier map of 4 entries.
C8_EndToEnd ==
    /\ (~Unauthorized /\ pc = "done" /\ failed_in = "none") =>
          result.status = "Ok"
    /\ result.status = "Ok" =>
          /\ result.categories_created = 2
          /\ result.channels_created = 4
          /\ result.roles_created = 2
          /\ result.roles_updated = 1
          /\ result.overwrites_applied = 3
          /\ Cardinality(DOMAIN result.channel_id_map) = 4

\* the scenario ran to its answer, two of its overwrites naming the same
\* channel and role
C8_Witness ==
    /\ result.status = "Ok"
    /\ Len(req.categories) = 2
    /\ Len(req.channels) = 5
    /\ Len(req.roles) = 3
    /\ Len(req.permission_overwrites) = 4
    /\ DefaultRolesOf(old_db, server_id) # {}
    /\ Cardinality(OverwritesOf(db, server_id)) = 2

\* the tables the handler works on: those of the open transaction, the
\* committed ones when none is open
Tables == IF tx.open THEN tx.tables ELSE db

\* every entry of the backup has been read and the maps are still held
AllRead == pc \in {"commit", "audit", "broadcast", "respond"}

\* both lookups of an overwrite succeed
Resolves(ow) ==
    /\ ow.channel_id \in DOMAIN channel_map
    /\ ow.target_id \in DOMAIN role_map

\* the row an overwrite whose lookups succeed is written as
RowOf(ow) ==
    [channel_id |-> channel_map[ow.channel_id],
     target_type |-> ow.target_type,
     target_id |-> role_map[ow.target_id],
     allow_bits |-> ow.allow, deny_bits |-> ow.deny]

\* the overwrites of the backup of type ty whose lookups succeed
Resolving(ty) ==
    {i \in 1..Len(req.permission_overwrites) :
        /\ req.permission_overwrites[i].target_type = ty
        /\ Resolves(req.permission_overwrites[i])}

\* an overwrite can be resolved at all: the backup has a channel that is
\* restored and a role that is restored or mapped to the live default
\* role under the local ids it names
Resolvable(ow) ==
    /\ \E j \in 1..Len(req.channels) :
          ServerOwned(req.channels[j]) /\ req.channels[j].id = ow.channel_id
    /\ \E j \in 1..Len(req.roles) :
          /\ req.roles[j].id = ow.target_id
          /\ req.roles[j].is_default =>
                DefaultRolesOf(old_db, server_id) # {}

\* C11: a role overwrite is applied exactly when its channel resolves in
\* the channel map and its target in the role map.  Once every entry has
\* been read, the role overwrite rows of the server are the rows of the
\* role overwrites of the backup whose two lookups succeed, and
\* overwrites_applied counts the overwrites that have a row.  An
\* overwrite whose lookup fails is passed over: no statement is executed
\* for it, so a backup none of whose overwrites can resolve never fails
\* in the overwrite loop, and unless a store statement fails the restore
\* ends Ok and reports the overwrites that could resolve.
C11_OverwriteNeedsBothLookups ==
    /\ AllRead =>
          /\ {o \in OverwritesOf(Tables, server_id) : o.target_type = "role"}
                = {RowOf(req.permission_overwrites[i]) : i \in Resolving("role")}
          /\ overwrites_applied =
                Cardinality({i \in 1..Len(req.permission_overwrites) :
                    /\ Resolves(req.permission_overwrites[i])
                    /\ RowOf(req.permission_overwrites[i])
                          \in OverwritesOf(Tables, server_id)})
    /\ (\A i \in 1..Len(req.permission_overwrites) :
            ~Resolvable(req.permission_overwrites[i]))
          => failed_in # "overwrites"
    /\ (~Unauthorized /\ pc = "done" /\ failed_in = "none") =>
          /\ result.status = "Ok"
          /\ result.overwrites_applied =
                Cardinality({i \in NotForMember(Len(req.permission_overwrites)) :
                                Resolvable(req.permission_overwrites[i])})

\* a restore committed with a channel and a role overwrite on it whose
\* role the backup lacks: nothing was applied
C11_Witness ==
    /\ pc = "respond"
    /\ db # old_db
    /\ \E i \in 1..Len(req.permission_overwrites) :
          LET ow == req.permission_overwrites[i]
          IN  /\ ow.target_type = "role"
              /\ ow.channel_id \in DOMAIN channel_map
              /\ ow.target_id \notin DOMAIN role_map
    /\ overwrites_applied = 0

\* C18: the audit record and the server-updated notification come after
\* the commit and are best effort.  While either exists the transaction
\* has committed: none is open, the committed tables have changed and the
\* handler is past the commit.  A request that is rejected or whose
\* transaction fails leaves neither.  A committed restore is always
\* answered Ok and always publishes the notification before it answers,
\* whether the audit record was written or not.
C18_SideEffectsAfterCommit ==
    /\ (audit_log # << >> \/ published # << >>) =>
          /\ pc \in {"broadcast", "respond", "done"}
          /\ tx_begun = 1
          /\ ~tx.open
          /\ db # old_db
          /\ failed_in = "none"
    /\ published # << >> => pc \in {"respond", "done"}
    /\ result.status \in {"Forbidden", "Validation", "Internal"} =>
          audit_log = << >> /\ published = << >>
    /\ (pc = "done" /\ db # old_db) => result.status = "Ok"
    /\ result.status = "Ok" =>
          /\ published = <<[server_id |-> server_id,
                            message |-> "ServerUpdated"]>>
          /\ Len(audit_log) <= 1
          /\ \A i \in 1..Len(audit_log) :
                /\ audit_log[i].action = "server_restore"
                /\ audit_log[i].user_id = user_id
                /\ audit_log[i].changes.channels_created
                      = result.channels_created

\* a restore was answered Ok although its audit record was not written
C18_Witness ==
    /\ result.status = "Ok"
    /\ audit_log = << >>
    /\ published # << >>
    /\ result.categories_created > 0

NoLiveDefault == DefaultRolesOf(old_db, server_id) = {}

\* the local ids of the backup's roles marked default
DefaultLocalIds == {req.roles[i].id : i \in DefaultEntries}

\* the local ids of the backup's other roles
CustomLocalIds ==
    {req.roles[i].id : i \in {j \in 1..Len(req.roles) : CustomRole(req.roles[j])}}

\* what C20 says whatever the local ids are: on a server without default
\* role the restore is not failed by a default entry, no default role is
\* created, none is updated, and the roles of the server are the backup's
\* other roles
DefaultEntryDropped ==
    /\ (~Unauthorized /\ pc = "done" /\ failed_in = "none") =>
          result.status = "Ok"
    /\ roles_updated = 0
    /\ existing_everyone = NoId
    /\ DefaultRolesOf(Tables, server_id) = {}
    /\ \A r \in db.roles \cup Tables.roles :
          r.server_id # server_id => r \in old_db.roles
    /\ AllRead =>
          /\ roles_created = Len(SelectSeq(req.roles, CustomRole))
          /\ Cardinality(RolesOf(Tables, server_id)) = roles_created
    /\ result.status = "Ok" =>
          /\ result.roles_updated = 0
          /\ result.roles_created = Len(SelectSeq(req.roles, CustomRole))
          /\ Cardinality(RolesOf(db, server_id)) = result.roles_created

\* C20 as claimed: when the server has no default role, the local id of a
\* default entry is not recorded in the role map, and every overwrite
\* targeting it is skipped.
C20_AsClaimed ==
    NoLiveDefault =>
        /\ DefaultEntryDropped
        /\ AllRead =>
              /\ DefaultLocalIds \cap DOMAIN role_map = {}
              /\ (\A i \in 1..Len(req.permission_overwrites) :
                    req.permission_overwrites[i].target_id
                       \in DefaultLocalIds)
                    => /\ overwrites_applied = 0
                       /\ OverwritesOf(Tables, server_id) = {}

\* C20, amended: as claimed, but the local id of a default entry is in
\* the role map exactly when another role of the backup, not marked
\* default, carries the same local id; it is then mapped to that role, and
\* only overwrites targeting a local id no such role carries are skipped.
C20_DefaultEntryNotApplied ==
    NoLiveDefault =>
        /\ DefaultEntryDropped
        /\ AllRead =>
              /\ DefaultLocalIds \cap DOMAIN role_map
                    = DefaultLocalIds \cap CustomLocalIds
              /\ \A k \in DOMAIN role_map :
                    \E r \in RolesOf(Tables, server_id) :
                       r.id = role_map[k] /\ ~r.is_default
              /\ (\A i \in 1..Len(req.permission_overwrites) :
                    req.permission_overwrites[i].target_id
                       \in DefaultLocalIds \ CustomLocalIds)
                    => /\ overwrites_applied = 0
                       /\ OverwritesOf(Tables, server_id) = {}

\* on a server without default role a backup of a channel, a default role
\* and a role overwrite naming both was committed: nothing was updated,
\* mapped or applied
C20_Witness ==
    /\ NoLiveDefault
    /\ pc = "respond"
    /\ db # old_db
    /\ DefaultEntries # {}
    /\ \E i \in 1..Len(req.permission_overwrites) :
          LET ow == req.permission_overwrites[i]
          IN  /\ ow.target_type = "role"
              /\ ow.channel_id \in DOMAIN channel_map
              /\ ow.target_id \in DefaultLocalIds
    /\ role_map = EmptyMap
    /\ roles_updated = 0
    /\ overwrites_applied = 0

-----------------------------------------------------------------------------
(* What the claims on import_messages speak of *)

\* the caller may import into the channel: it exists, belongs to a server
\* and the caller is the owner of that server or holds MANAGE_SERVER on it
MayImport ==
    \E c \in FindChannelById(old_db, channel_id) :
        /\ c.server_id # NoRef
        /\ \E m \in old_db.server_members :
              /\ m.server_id = c.server_id
              /\ m.user_id = user_id
              /\ m.is_owner \/ MANAGE_SERVER \in m.permissions

\* the batch has a record that cannot be decoded or parsed
Malformed == \E i \in 1..Len(req.messages) : ~WellFormed(req.messages[i])

\* the messages the store holds beyond those it held at first
NewMessages == db.messages \ old_db.messages

\* nothing was begun and nothing has changed
Untouched == tx_begun = 0 /\ ~tx.open /\ db = old_db

\* C12: import_messages is all or nothing.  A batch with a record, at any
\* position, whose timestamp cannot be parsed or whose sender_token or
\* encrypted_body cannot be decoded is never answered Ok and leaves the
\* store as it was, the records before the bad one included; an authorized
\* call is answered Validation unless a store statement fails first.  In
\* every state the new messages of the store are whole batches.
C12_ImportAllOrNothing ==
    /\ Malformed =>
          /\ db = old_db
          /\ result.status # "Ok"
          /\ pc = "done" => ~tx.open
          /\ (MayImport /\ pc = "done" /\ failed_in = "none") =>
                result.status = "Validation"
    /\ \E k \in 0..calls :
          Cardinality(NewMessages) = k * Len(req.messages)

\* a batch whose second record has an unparseable timestamp was rejected
\* after its first record had been inserted in the transaction
C12_Witness ==
    /\ pc = "done"
    /\ result.status = "Validation"
    /\ tx_begun = 1
    /\ Len(req.messages) = 2
    /\ WellFormed(req.messages[1])
    /\ ~ParseTimestamp(req.messages[2].timestamp).ok
    /\ db = old_db

\* C13: a batch of more than 200 records is answered Validation with no
\* insert, whoever calls and whatever channel is named: the size is
\* checked before the channel is looked up and the caller authorized.  A
\* batch of exactly 200 well-formed records from an authorized caller is
\* answered Ok with imported = 200, unless a store statement fails.
C13_BatchCap ==
    /\ Len(req.messages) > 200 =>
          /\ pc \in {"import_size", "done"}
          /\ pc = "done" => result.status = "Validation"
          /\ Untouched
    /\ (Len(req.messages) <= 200 /\ MayImport) =>
          result.status # "Validation"
    /\ (Len(req.messages) = 200 /\ MayImport /\ pc = "done"
          /\ failed_in = "none") =>
          /\ result.status = "Ok"
          /\ result.imported = 200
          /\ Cardinality(NewMessages) = calls * 200

\* a batch of 200 records was imported
C13_Witness ==
    /\ Len(req.messages) = 200
    /\ result.status = "Ok"
    /\ result.imported = 200
    /\ calls = 1
    /\ Cardinality(NewMessages) = 200

C15_ImportAddsMessages ==
    result.status = "Ok" /\ channel_id # NoId =>
        LET n == Len(req.messages)
            new == ById(NewMessages)
        IN  /\ old_db.messages \subseteq db.messages
            /\ [db EXCEPT !.messages = old_db.messages,
                          !.id_seq = old_db.id_seq] = old_db
            /\ result.imported = n
            /\ Len(new) = calls * n
            /\ Cardinality({r.id : r \in db.messages})
                  = Cardinality(db.messages)
            /\ \A k \in 1..Len(new) :
                  /\ new[k] = MessageRow(new[k].id, channel_id,
                                         req.messages[((k - 1) % n) + 1])
                  /\ new[k].id \notin {r.id : r \in old_db.messages}
                  /\ new[k].timestamp.offset = 0

\* the same batch of two records was imported twice
C15_Witness ==
    /\ result.status = "Ok"
    /\ calls = 2
    /\ Len(req.messages) = 2
    /\ req.messages[1] = req.messages[2]
    /\ Cardinality(NewMessages) = 4
    /\ \E r \in old_db.messages : r.channel_id = channel_id

-----------------------------------------------------------------------------
(* What the claims on verify_export speak of *)

\* the bytes of the signature of the request, when its text is base64
SigBytes == DecodeSignature(req.signature).value

\* the users the manifest names as its exporter
Signers == FindUserById(old_db, ExportedBy(req.manifest))

\* C16: a signature that decodes to other than 64 bytes is answered
\* Validation, whether the exporter the manifest names exists or not;
\* neither the exporter is looked up nor a signature verified for it.
C16_ShortSignatureRejected ==
    (DecodeSignature(req.signature).ok /\ SigBytes.len # 64) =>
          /\ pc \in {"verify_manifest", "verify_signature", "done"}
          /\ pc = "done" => result.status = "Validation"
          /\ lookups = 0
          /\ verifications = 0

\* a signature of 63 bytes for a manifest whose exporter does not exist
\* was rejected
C16_Witness ==
    /\ pc = "done"
    /\ result.status = "Validation"
    /\ DecodeSignature(req.signature).ok
    /\ SigBytes.len = 63
    /\ ExportedBy(req.manifest) = 29
    /\ Signers = {}

\* C17: for a request whose manifest names an exporter that exists and
\* whose signature is 64 bytes, the answer is Ok and never an error, and
\* valid holds exactly when the exporter's key is 32 bytes that encode the
\* public key of the pair that made the signature, the signature is
\* intact and it is over the serialization of the manifest in key order.
\* identity_key_matches equals valid and the signer is the exporter.
C17_ValidIffSignatureVerifies ==
    (/\ pc = "done"
     /\ Signers # {}
     /\ DecodeSignature(req.signature).ok
     /\ SigBytes.len = 64) =>
        \A u \in Signers :
           /\ result.status = "Ok"
           /\ result.valid <=>
                 /\ u.identity_key.len = 32
                 /\ u.identity_key.point \in KeyPairs
                 /\ SigBytes.intact
                 /\ SigBytes.signed_by = u.identity_key.point
                 /\ SigBytes.over = ToVec(req.manifest)
           /\ SigBytes = Sign("k1", ToVec(req.manifest)) =>
                 (result.valid <=> u.identity_key = PublicKey("k1"))
           /\ result.identity_key_matches = result.valid
           /\ result.signer.user_id = u.id
           /\ u.identity_key.len # 32 => verifications = 0

\* the exporter's signature over a manifest of two keys was found valid
C17_Witness ==
    /\ pc = "done"
    /\ result.status = "Ok"
    /\ result.valid
    /\ Len(ToVec(req.manifest)) = 2
    /\ verifications = 1

-----------------------------------------------------------------------------
(* What the claims on request_beta_code speak of *)

\* the address of the request q is accepted
Accepted(q) == ~IsInvalidEmail(NormalizeEmail(beta_email[q]))

\* C19: with SMTP configured, every request with an accepted address that
\* is answered gets one and the same response, success = true with the
\* generic message, whether its address had received a code, the cap was
\* reached or an invite was created for it: any two such responses are
\* equal.  Only an error of create_beta_invite is answered otherwise.
C19_UniformResponse ==
    config.smtp_enabled =>
        /\ \A q \in DOMAIN beta_pc :
              (Accepted(q) /\ beta_pc[q] = "done") =>
                 /\ beta_outcome[q]
                       \in {"duplicate", "capped", "issued", "failed"}
                 /\ beta_outcome[q] # "failed" =>
                       /\ beta_result[q].status = "Ok"
                       /\ beta_result[q].success = TRUE
                       /\ beta_result[q].message =
                             "If slots are available, you'll receive a code shortly."
        /\ \A q, r \in DOMAIN beta_pc :
              (/\ beta_outcome[q] \in {"duplicate", "capped", "issued"}
               /\ beta_outcome[r] \in {"duplicate", "capped", "issued"})
                 => beta_result[q] = beta_result[r]

\* one request was issued a code and another, whose address had received
\* one, was not: both got the same response
C19_Witness ==
    /\ config.smtp_enabled
    /\ \E q, r \in DOMAIN beta_pc :
          /\ beta_outcome[q] = "issued"
          /\ beta_outcome[r] = "duplicate"
          /\ beta_result[q] = beta_result[r]
          /\ beta_result[q].status = "Ok"

-----------------------------------------------------------------------------
(* What the claim on the returned channel identifier map speaks of *)

\* the backup's channels that are created, by their place in the backup
Created == {i \in 1..Len(req.channels) : ServerOwned(req.channels[i])}

\* the local ids of the created channels
CreatedLocalIds == {req.channels[i].id : i \in Created}

\* the place in the backup of the last created channel with the local id k
LastWith(k) ==
    CHOOSE i \in Created :
       /\ req.channels[i].id = k
       /\ \A j \in Created : req.channels[j].id = k => j <= i

\* the row of the n-th channel the restore created
NthCreated(n) == ById(ChannelsOf(db, server_id))[n]

\* the identifiers the returned map answers with
Answered == {result.channel_id_map[k] : k \in DOMAIN result.channel_id_map}

\* C23 as claimed: after a successful restore the returned map has exactly
\* channels_created entries and its values are exactly the identifiers of
\* the channels this restore created, for every backup.
C23_AsClaimed ==
    result.status = "Ok" =>
       /\ Cardinality(DOMAIN result.channel_id_map) = result.channels_created
       /\ Answered =
             {UuidToString(c.id) : c \in ChannelsOf(db, server_id)}

\* C23, amended: after a successful restore the returned map has one entry
\* per distinct local id of the created channels, each the identifier of
\* the last channel created under that local id; its values are distinct
\* identifiers of channels this restore created.  It has channels_created
\* entries, and answers with every created channel, exactly when no two
\* created channels carry the same local id.
C23_MapOfLastCreated ==
    result.status = "Ok" =>
       /\ result.channels_created = Cardinality(Created)
       /\ Cardinality(ChannelsOf(db, server_id)) = Cardinality(Created)
       /\ DOMAIN result.channel_id_map = CreatedLocalIds
       /\ \A k \in CreatedLocalIds :
             result.channel_id_map[k] =
                UuidToString(NthCreated(
                   Cardinality({j \in Created : j <= LastWith(k)})).id)
       /\ Cardinality(Answered) = Cardinality(CreatedLocalIds)
       /\ (Cardinality(DOMAIN result.channel_id_map)
              = result.channels_created)
             <=> (\A i, j \in Created :
                     req.channels[i].id = req.channels[j].id => i = j)

\* a backup with two text channels of one local id was restored: two
\* channels were created and the map has one entry, the second channel's
C23_Witness ==
    /\ result.status = "Ok"
    /\ Len(req.channels) = 2
    /\ req.channels[1].channel_type = "text"
    /\ req.channels[2].channel_type = "text"
    /\ req.channels[1].id = req.channels[2].id
    /\ result.channels_created = 2
    /\ Cardinality(DOMAIN result.channel_id_map) = 1
    /\ result.channel_id_map[req.channels[1].id] =
          UuidToString(NthCreated(2).id)

-----------------------------------------------------------------------------
(* What the claim on the cap of request_beta_code speaks of *)

\* C22: the number of invites issued never exceeds beta_code_limit,
\* whatever the requests and however they interleave: from a store that
\* holds no more invites than the limit, no state is reached whose store
\* holds more.
C22_NeverOverCap ==
    CountBetaCodes(old_db) <= config.beta_code_limit
        => CountBetaCodes(db) <= config.beta_code_limit

-----------------------------------------------------------------------------
(* What the claim on concurrent restores speaks of *)

\* the categories, channels and non-default roles of the server are those
\* a restore of the backup leaves, in backup order, every channel in the
\* category its reference resolves to or in none
LeftBy(backup) ==
    LET categories == ById(CategoriesOf(db, server_id))
        wanted == SelectSeq(backup.channels, ServerOwned)
        channels == ById(ChannelsOf(db, server_id))
        custom == SelectSeq(backup.roles, CustomRole)
        roles == ById({r \in RolesOf(db, server_id) : ~r.is_default})
    IN  /\ Len(categories) = Len(backup.categories)
        /\ \A i \in 1..Len(categories) :
              /\ categories[i].name = backup.categories[i].name
              /\ categories[i].position = backup.categories[i].position
        /\ Len(channels) = Len(wanted)
        /\ \A i \in 1..Len(wanted) :
              /\ channels[i].name = wanted[i].name
              /\ channels[i].channel_type = wanted[i].channel_type
              /\ channels[i].position = wanted[i].position
              /\ channels[i].category_id \in
                    IF \E k \in 1..Len(backup.categories) :
                          backup.categories[k].id = wanted[i].category_id
                    THEN {categories[k].id : k \in 1..Len(categories)}
                    ELSE {NoId}
        /\ Len(roles) = Len(custom)
        /\ \A i \in 1..Len(custom) :
              /\ roles[i].name = custom[i].name
              /\ roles[i].color = custom[i].color
              /\ roles[i].permissions = custom[i].permissions
              /\ roles[i].position = custom[i].position

\* the transaction of the call c has committed
HasCommitted(c) ==
    restores[c].pc \in {"audit", "respond"}
       \/ restores[c].result.status = "Ok"

\* C21: when two restore_server calls for the same server, with different
\* backups, run concurrently and both commit, the categories, channels and
\* non-default roles of the server are exactly those of one of the two
\* backups, as after the two restores run one after the other: no
\* interleaving leaves entities of both.
C21_ConcurrentRestoresSerialize ==
    (\A c \in DOMAIN restores : HasCommitted(c)) =>
        \E c \in DOMAIN restores : LeftBy(restores[c].req)

\* two calls with backups of a category, a channel and a role each were
\* open at once on a server without structure, one had to wait for the
\* other, both committed, and the server holds the backup of one of them
C21_Witness ==
    /\ DOMAIN restores # {}
    /\ \A c \in DOMAIN restores :
          /\ HasCommitted(c)
          /\ Len(restores[c].req.categories) = 1
          /\ ~restores[c].req.roles[1].is_default
    /\ \E c \in DOMAIN restores : restores[c].waited
    /\ CategoriesOf(old_db, server_id) = {}
    /\ Cardinality(CategoriesOf(db, server_id)) = 1
    /\ Cardinality(ChannelsOf(db, server_id)) = 1
    /\ \E c \in DOMAIN restores : LeftBy(restores[c].req)

====
